---- MODULE Spec2Model ----
(***************************************************************************)
(* The simulation core of the Bzoink top-down shooter                       *)
(* (src/components/GameCanvas.tsx): the animation-frame loop, the update    *)
(* pass with its collision and kill bookkeeping, perks, and the             *)
(* death/respawn state machine.                                             *)
(*                                                                          *)
(* Numbers.  The code computes in IEEE doubles; the model computes in       *)
(* integers: positions and radii in pixels, velocities in pixels per        *)
(* second, times in milliseconds (dt is carried in ms, so `v * dt` of the   *)
(* code is (v * dt) / 1000 here), shockwave life and visibility in          *)
(* thousandths.  A quotient is rounded towards zero.  Distances are compared through     *)
(* their squares wherever the code only compares them, so those tests are   *)
(* exact on integer positions.                                              *)
(*                                                                          *)
(* Randomness.  Every Math.random() draw is an input of the frame (the      *)
(* record `in.rnd`); all draws of one kind within one frame are equal.      *)
(*                                                                          *)
(* Particles.  A burst of n particles created by one call is one record     *)
(* with multiplicity n (all its particles drew the same random numbers).    *)
(*                                                                          *)
(* Left out: the background grid, screen shake, colours, drawing and        *)
(* sound synthesis: none of them is read by the simulation.  Sound and      *)
(* callback triggers are kept as events of the frame's log.                 *)
(***************************************************************************)
EXTENDS Integers, Sequences, FiniteSets, TLC

VARIABLES
    settings,          \* the GameSettings prop
    isPaused,          \* the isPaused prop
    canvas,            \* canvasRef.current: [width, height]
    player,            \* playerRef: [x, y, health, energy, visibility]
    enemies,           \* enemiesRef
    projectiles,       \* projectilesRef
    particles,         \* particlesRef (bursts with multiplicity)
    perks,             \* perksRef
    letters,           \* lettersRef
    shockwaves,        \* shockwavesRef
    obstacles,         \* obstaclesRef
    formingEnemies,    \* formingEnemiesRef
    deathState,        \* deathStateRef
    score,             \* scoreRef
    kills,             \* killsRef
    buffs,             \* buffsRef
    shellTimers,       \* pending setTimeout callbacks of the shell perk (due times)
    localActiveWeapon, \* localActiveWeaponRef
    currentSpawnRate,  \* currentSpawnRateRef
    timers,            \* lastTime, lastShotTime, lastSpawnTime, ... refs
    ids,               \* the id counters
    frames,            \* how many animation frames have run (bounds the model)
    obs,               \* what the last step did: the events it emitted
    app                \* the state of App: isLanding, showGameOver, showPaywall,
                       \* sessionsPlayed, unlocked, and the due times of the
                       \* pending setTimeout callbacks of handleGameOver

vars == << settings, isPaused, canvas, player, enemies, projectiles, particles,
           perks, letters, shockwaves, obstacles, formingEnemies, deathState,
           score, kills, buffs, shellTimers, localActiveWeapon,
           currentSpawnRate, timers, ids, frames, obs, app >>

----------------------------------------------------------------------------
(* Bounds of the model *)

\* animation frames in a behaviour of the combat specification
MaxFrames == 2

\* animation frames in a behaviour of the death specification
MaxFramesDeath == 6

\* the frames of a behaviour of the host specification
MaxFramesHost == 3

\* the frames of a behaviour of the arsenal specification
MaxFramesArms == 2

----------------------------------------------------------------------------
(* Arithmetic helpers *)

Abs(a) == IF a < 0 THEN -a ELSE a

Min(a, b) == IF a < b THEN a ELSE b

Max(a, b) == IF a > b THEN a ELSE b

CeilDiv(a, b) == (a + b - 1) \div b

\* a / b rounded towards zero, for b > 0
Quot(a, b) == IF a >= 0 THEN a \div b ELSE -((-a) \div b)

RECURSIVE SqrtIter(_, _)
SqrtIter(n, x) ==
    LET y == (x + n \div x) \div 2
    IN  IF y >= x THEN x ELSE SqrtIter(n, y)

\* floor(Math.sqrt(n)) for n >= 0
ISqrt(n) == IF n < 2 THEN n ELSE SqrtIter(n, n)

\* dx*dx + dy*dy
Dist2(ax, ay, bx, by) == (ax - bx) * (ax - bx) + (ay - by) * (ay - by)

\* Math.sqrt(dx*dx + dy*dy) < r, for an integer r
Within(ax, ay, bx, by, r) == r > 0 /\ Dist2(ax, ay, bx, by) < r * r

\* Math.sqrt(dx*dx + dy*dy) <= r, for an integer r
WithinEq(ax, ay, bx, by, r) == r >= 0 /\ Dist2(ax, ay, bx, by) <= r * r

\* v * dt with dt in milliseconds: whole seconds and the remainder are multiplied
\* apart, which gives the same quotient and keeps the product small
Step(v, dt) == v * (dt \div 1000) + Quot(v * (dt % 1000), 1000)

\* (d / dist) * speed: one component of a vector of length speed along (dx, dy)
Along(d, dist, speed) == IF dist = 0 THEN 0 ELSE Quot(d * speed, dist)

RemoveAt(seq, i) == SubSeq(seq, 1, i - 1) \o SubSeq(seq, i + 1, Len(seq))

IdsOf(seq) == { seq[i].id : i \in 1..Len(seq) }

RECURSIVE SumSeq(_)
SumSeq(seq) == IF seq = << >> THEN 0 ELSE Head(seq) + SumSeq(Tail(seq))

----------------------------------------------------------------------------
(* Configuration *)

DEFAULT_SETTINGS ==
    [ playerRadius |-> 15, playerSpeed |-> 450, maxHealth |-> 100,
      activeWeapon |-> "blaster",
      modeDrainingBullets |-> FALSE, modeStealth |-> FALSE,
      enemyRadius |-> 9, enemySpeed |-> 172,
      enemySpawnRate |-> 1000, enemySpawnIncreaseRate |-> 10,
      projectileRadius |-> 4, projectileSpeed |-> 1412,
      projectileFireRate |-> 150, projectileBounces |-> 0,
      particleCount |-> 12, particleSpeed |-> 400, particleLife |-> 30000,
      particleDragPct |-> 95, enemyDeathParticleMultiplier |-> 1,
      perkSpawnChancePct |-> 25, perkDuration |-> 5000, quoteSpawnInterval |-> 45000,
      nukeBlastRadius |-> 400 ]

----------------------------------------------------------------------------
(* The game state as one record, threaded through the steps of a handler.  *)
(* Array indices are 1-based here and 0-based in the code.                  *)

Cur ==
    [ player |-> player, enemies |-> enemies, projectiles |-> projectiles,
      particles |-> particles, perks |-> perks, letters |-> letters,
      shockwaves |-> shockwaves, obstacles |-> obstacles,
      formingEnemies |-> formingEnemies, deathState |-> deathState,
      score |-> score, kills |-> kills, buffs |-> buffs,
      shellTimers |-> shellTimers, localActiveWeapon |-> localActiveWeapon,
      currentSpawnRate |-> currentSpawnRate, timers |-> timers, ids |-> ids,
      log |-> << >> ]

Emit(s, e) == [s EXCEPT !.log = Append(@, e)]

\* Math.cos(Math.atan2(dy, dx)) * mag; atan2(0, 0) is 0
CosOf(dx, dy, mag) ==
    LET h == ISqrt(dx * dx + dy * dy)
    IN  IF h = 0 THEN mag ELSE Quot(dx * mag, h)

\* Math.sin(Math.atan2(dy, dx)) * mag
SinOf(dx, dy, mag) ==
    LET h == ISqrt(dx * dx + dy * dy)
    IN  IF h = 0 THEN 0 ELSE Quot(dy * mag, h)

\* step 2 of createExplosion: the push on one existing particle
explosionPush(p, x, y, in) ==
    LET dx == p.x - x
        dy == p.y - y
        dist2 == dx * dx + dy * dy
        dist == ISqrt(dist2)
    IN  IF (~p.nan) /\ dist2 < 300 * 300 /\ dist2 > 1
        THEN [p EXCEPT
                !.vx = @ + Quot(dx * 800 * (300 - dist), 300 * dist) + in.rnd.jitter,
                !.vy = @ + Quot(dy * 800 * (300 - dist), 300 * dist) + in.rnd.jitter]
        ELSE p

\* countOverride 0 stands for an omitted (or zero) countOverride: `countOverride || particleCount`;
\* colorOverride "" for an omitted one.  The colour is only drawn; it is kept in the event.
createExplosion(s, in, x, y, isNaN, impactVx, impactVy, countOverride, colorOverride) ==
    LET impactSpeed == ISqrt(impactVx * impactVx + impactVy * impactVy)
        d == IF impactSpeed = 0 THEN 1 ELSE impactSpeed
        count == IF countOverride = 0 THEN settings.particleCount ELSE countOverride
        speed == in.rnd.pspeed
        burst == [ id |-> s.ids.particle, n |-> count, x |-> x, y |-> y, nan |-> isNaN,
                   vx |-> in.rnd.pdir.x * speed + Quot(impactVx * settings.particleSpeed, 2 * d),
                   vy |-> in.rnd.pdir.y * speed + Quot(impactVy * settings.particleSpeed, 2 * d),
                   life |-> settings.particleLife, type |-> "default",
                   formingTargetId |-> -1 ]
        pushed == IF count > 0 THEN Append(s.particles, burst) ELSE s.particles
        shaken == IF isNaN THEN pushed
                  ELSE [ i \in 1..Len(pushed) |-> explosionPush(pushed[i], x, y, in) ]
    IN  Emit([s EXCEPT !.particles = shaken,
                       !.ids.particle = @ + (IF count > 0 THEN count ELSE 0)],
             [ev |-> "explosion", x |-> x, y |-> y, count |-> count,
              color |-> colorOverride])

baseTypes == {"nuke", "shell", "time", "fire", "speed", "life", "gun_explosive"}

weaponTypes ==
    IF settings.modeStealth THEN {"weapon_sniper"}
    ELSE {"weapon_shotgun", "weapon_machinegun", "weapon_blaster"}

spawnPerk(s, in, x, y) ==
    LET type == IF in.rnd.perkType \in baseTypes \cup weaponTypes
                THEN in.rnd.perkType ELSE "life"
    IN  [s EXCEPT !.perks = Append(@, [ id |-> s.ids.perk, x |-> x, y |-> y,
                                         radius |-> 10, type |-> type ]),
                  !.ids.perk = @ + 1]

\* shockwavesRef.current.push({ id, x, y, radius, maxRadius, life })
pushShockwave(s, x, y, radius, maxRadius, life) ==
    [s EXCEPT !.shockwaves = Append(@, [ id |-> s.ids.shockwave, x |-> x, y |-> y,
                                         radius |-> radius, maxRadius |-> maxRadius,
                                         life |-> life ]),
              !.ids.shockwave = @ + 1]

getEnemyKillScore(enemy) ==
    CASE enemy.type = "level1" -> 1
      [] enemy.type = "level2" -> 3
      [] enemy.type = "aggregate" -> CeilDiv(enemy.radius, 10)
      [] enemy.type = "stealth_sniper" -> 2
      [] OTHER -> 1

\* the perk roll that ends killEnemy
dropPerk(s, in, x, y) ==
    IF in.rnd.perkDrop /\ settings.perkSpawnChancePct > 0
    THEN spawnPerk(s, in, x, y)
    ELSE s

killEnemy(s, in, index, vx, vy) ==
    IF index < 1 \/ index > Len(s.enemies) THEN s
    ELSE
    LET enemy == s.enemies[index]
        points == getEnemyKillScore(enemy)
        particleMultiplier == IF settings.modeStealth THEN 5
                              ELSE settings.enemyDeathParticleMultiplier
        finalMultiplier == particleMultiplier * 5
        particleCount == enemy.radius * finalMultiplier
        s1 == [s EXCEPT !.score = @ + points, !.kills = @ + 1]
        s2 == createExplosion(s1, in, enemy.x, enemy.y, enemy.nan, vx, vy, particleCount,
                              IF settings.modeStealth THEN "#ffffff" ELSE "#ef4444")
        s3 == Emit(s2, [ev |-> "explosionSound", size |-> 15 + enemy.radius])
        s4 == [s3 EXCEPT !.enemies = RemoveAt(@, index)]
    IN  dropPerk(s4, in, enemy.x, enemy.y)

\* variant: the blast takes the enemies at exactly nukeBlastRadius too
inNukeBlastInclusive(s, e) ==
    (~e.nan) /\ WithinEq(s.player.x, s.player.y, e.x, e.y, settings.nukeBlastRadius)

\* `dist < settings.nukeBlastRadius` of the nuke's filter (false for a NaN position)
inNukeBlast(s, e) ==
    (~e.nan) /\ Within(s.player.x, s.player.y, e.x, e.y, settings.nukeBlastRadius)

\* the enemies.filter of the nuke perk: todo is what is left to visit
RECURSIVE nukeFilter(_, _, _, _)
nukeFilter(s, in, todo, kept) ==
    IF todo = << >> THEN [s EXCEPT !.enemies = kept]
    ELSE
    LET e == Head(todo)
        hit == inNukeBlast(s, e)
        points == getEnemyKillScore(e)
        s1 == [s EXCEPT !.score = @ + points, !.kills = @ + 1]
        s2 == createExplosion(s1, in, e.x, e.y, e.nan,
                              (e.x - s.player.x) * 2, (e.y - s.player.y) * 2,
                              e.radius * settings.enemyDeathParticleMultiplier, "#ef4444")
    IN  IF hit THEN nukeFilter(s2, in, Tail(todo), kept)
        ELSE nukeFilter(s, in, Tail(todo), Append(kept, e))

\* the nuke case of activatePerk
nukePerk(s, in) ==
    LET s1 == pushShockwave(s, s.player.x, s.player.y, 10, settings.nukeBlastRadius, 1000)
        s2 == Emit(s1, [ev |-> "shootSound", weapon |-> "nuke"])
        s3 == createExplosion(s2, in, s.player.x, s.player.y, FALSE, 0, 0, 0, "")
    IN  nukeFilter(s3, in, s.enemies, << >>)

activatePerk(s, in, type, timestamp) ==
    LET s0 == Emit(s, [ev |-> "powerupSound"])
    IN  CASE type = "nuke" -> nukePerk(s0, in)
          [] type = "shell" ->
               [s0 EXCEPT !.buffs.shell = TRUE,
                          !.shellTimers = Append(@, timestamp + settings.perkDuration)]
          [] type = "time" ->
               [s0 EXCEPT !.buffs.timeSlowUntil = timestamp + settings.perkDuration]
          [] type = "fire" ->
               [s0 EXCEPT !.buffs.fireRateUntil = timestamp + settings.perkDuration]
          [] type = "speed" ->
               [s0 EXCEPT !.buffs.speedUntil = timestamp + settings.perkDuration]
          [] type = "life" ->
               [s0 EXCEPT !.player.health = Min(@ + 5, settings.maxHealth)]
          [] type = "gun_explosive" ->
               [s0 EXCEPT !.buffs.explosiveAmmoUntil = timestamp + settings.perkDuration]
          [] OTHER -> s0

\* in.rnd.obstacles are the rectangles drawn; one whose centre is within 300
\* of the player is dropped
RECURSIVE keepObstacles(_, _, _)
keepObstacles(s, todo, nextId) ==
    IF todo = << >> THEN << >>
    ELSE
    LET o == Head(todo)
        near == Within(o.x + o.width \div 2, o.y + o.height \div 2,
                       s.player.x, s.player.y, 300)
    IN  IF near THEN keepObstacles(s, Tail(todo), nextId)
        ELSE << [o EXCEPT !.id = nextId] >> \o keepObstacles(s, Tail(todo), nextId + 1)

\* the obstacles made from the rectangles drawn
placeObstacles(s, made) == [s EXCEPT !.obstacles = made, !.ids.obstacle = @ + Len(made)]

\* generateObstacles as run by a render whose settings.modeStealth is `stealth`
regenerate(s, in, stealth) ==
    placeObstacles(s, IF stealth
                      THEN keepObstacles(s, in.rnd.obstacles, s.ids.obstacle)
                      ELSE << >>)

generateObstacles(s, in) == regenerate(s, in, settings.modeStealth)

RECURSIVE explodeAll(_, _, _)
explodeAll(s, in, todo) ==
    IF todo = << >> THEN s
    ELSE LET e == Head(todo)
         IN  explodeAll(createExplosion(s, in, e.x, e.y, e.nan,
                                        e.x - s.player.x, e.y - s.player.y, 0, "#ef4444"),
                        in, Tail(todo))

\* in.rnd.death: the directions and speeds drawn for the 100 death particles,
\* as bursts [n, vx, vy] whose n add up to 100
RECURSIVE deathParticles(_, _, _)
deathParticles(s, todo, nextId) ==
    IF todo = << >> THEN << >>
    ELSE LET d == Head(todo)
         IN  << [ id |-> nextId, n |-> d.n, x |-> s.player.x, y |-> s.player.y,
                  nan |-> FALSE, vx |-> d.vx, vy |-> d.vy, life |-> 6000,
                  type |-> "death", formingTargetId |-> -1 ] >>
             \o deathParticles(s, Tail(todo), nextId + d.n)

\* the 100 particles of type 'death' that triggerDeath spawns at the player
spawnDeathParticles(s, in) ==
    [s EXCEPT !.particles = @ \o deathParticles(s, in.rnd.death, s.ids.particle),
              !.ids.particle = @ + 100]

\* variant: a death that leaves the projectiles in flight
triggerDeathKeepingShots(s, in, timestamp) ==
    LET s1 == Emit(s, [ev |-> "explosionSound", size |-> 60])
        timeSurvived == (timestamp - s.timers.sessionStart) \div 1000
        s2 == Emit(s1, [ev |-> "gameOver", wisdom |-> s.score, kills |-> s.kills,
                        timeSurvived |-> timeSurvived])
        s3 == [s2 EXCEPT !.timers.sessionStart = timestamp,
                         !.score = 0, !.kills = 0,
                         !.currentSpawnRate = settings.enemySpawnRate,
                         !.timers.startTime = timestamp,
                         !.player.energy = 100]
        s4 == generateObstacles(s3, in)
        s5 == explodeAll(s4, in, s.enemies)
        s6 == pushShockwave(s5, s.player.x, s.player.y, 10,
                            (Max(canvas.width, canvas.height) * 3) \div 2, 1000)
        s7 == [s6 EXCEPT
                 !.enemies = << >>, !.perks = << >>, !.letters = << >>,
                 !.deathState = [ active |-> TRUE, gatherStartTime |-> timestamp + 5000,
                                  respawnX |-> in.rnd.respawn.x,
                                  respawnY |-> in.rnd.respawn.y ]]
    IN  spawnDeathParticles(s7, in)

\* a variant whose death puts the menu's gun back into the player's hands
triggerDeathResettingGun(s, in, timestamp) ==
    LET s1 == Emit(s, [ev |-> "explosionSound", size |-> 60])
        timeSurvived == (timestamp - s.timers.sessionStart) \div 1000
        s2 == Emit(s1, [ev |-> "gameOver", wisdom |-> s.score, kills |-> s.kills,
                        timeSurvived |-> timeSurvived])
        s3 == [s2 EXCEPT !.timers.sessionStart = timestamp,
                         !.score = 0, !.kills = 0,
                         !.currentSpawnRate = settings.enemySpawnRate,
                         !.timers.startTime = timestamp,
                         !.player.energy = 100,
                         !.localActiveWeapon = settings.activeWeapon]
        s4 == generateObstacles(s3, in)
        s5 == explodeAll(s4, in, s.enemies)
        s6 == pushShockwave(s5, s.player.x, s.player.y, 10,
                            (Max(canvas.width, canvas.height) * 3) \div 2, 1000)
        s7 == [s6 EXCEPT
                 !.enemies = << >>, !.projectiles = << >>,
                 !.perks = << >>, !.letters = << >>,
                 !.deathState = [ active |-> TRUE, gatherStartTime |-> timestamp + 5000,
                                  respawnX |-> in.rnd.respawn.x,
                                  respawnY |-> in.rnd.respawn.y ]]
    IN  spawnDeathParticles(s7, in)

\* Date.now() is read on the clock of the frame timestamps
triggerDeath(s, in, timestamp) ==
    LET s1 == Emit(s, [ev |-> "explosionSound", size |-> 60])
        timeSurvived == (timestamp - s.timers.sessionStart) \div 1000
        s2 == Emit(s1, [ev |-> "gameOver", wisdom |-> s.score, kills |-> s.kills,
                        timeSurvived |-> timeSurvived])
        s3 == [s2 EXCEPT !.timers.sessionStart = timestamp,
                         !.score = 0, !.kills = 0,
                         !.currentSpawnRate = settings.enemySpawnRate,
                         !.timers.startTime = timestamp,
                         !.player.energy = 100]
        s4 == generateObstacles(s3, in)
        s5 == explodeAll(s4, in, s.enemies)
        s6 == pushShockwave(s5, s.player.x, s.player.y, 10,
                            (Max(canvas.width, canvas.height) * 3) \div 2, 1000)
        s7 == [s6 EXCEPT
                 !.enemies = << >>, !.projectiles = << >>,
                 !.perks = << >>, !.letters = << >>,
                 !.deathState = [ active |-> TRUE, gatherStartTime |-> timestamp + 5000,
                                  respawnX |-> in.rnd.respawn.x,
                                  respawnY |-> in.rnd.respawn.y ]]
    IN  spawnDeathParticles(s7, in)

NoEnemyAI == [ visibility |-> 0, state |-> "none", stateTimer |-> 0 ]

\* variant: level2 enemies from 6 seconds on
spawnEnemyEarlyLevel2(s, in, timestamp) ==
    LET r == (Max(canvas.width, canvas.height) * 2) \div 3 + 50
        x == s.player.x + Quot(in.rnd.spawnDir.x * r, 1000)
        y == s.player.y + Quot(in.rnd.spawnDir.y * r, 1000)
        base == [ id |-> s.ids.enemy, x |-> x, y |-> y, nan |-> FALSE, vx |-> 0, vy |-> 0 ]
        elapsedTime == timestamp - s.timers.startTime
        isLevel2 == elapsedTime > 6000 /\ in.rnd.level2
        e == IF settings.modeStealth
             THEN base @@ [ radius |-> settings.enemyRadius, type |-> "stealth_sniper",
                            hp |-> 1, maxHp |-> 1, visibility |-> 0, state |-> "idle",
                            stateTimer |-> in.rnd.stateTimer ]
             ELSE IF isLevel2
             THEN base @@ [ radius |-> (settings.enemyRadius * 3) \div 2, type |-> "level2",
                            hp |-> 15, maxHp |-> 15 ] @@ NoEnemyAI
             ELSE base @@ [ radius |-> settings.enemyRadius, type |-> "level1",
                            hp |-> 2, maxHp |-> 2 ] @@ NoEnemyAI
    IN  Emit([s EXCEPT !.enemies = Append(@, e), !.ids.enemy = @ + 1],
             [ev |-> "spawn", enemy |-> e])

\* in.rnd.spawnDir is 1000 * (cos angle, sin angle) of the drawn angle; the
\* Date.now() of the level2 test is the frame's timestamp
spawnEnemy(s, in, timestamp) ==
    LET r == (Max(canvas.width, canvas.height) * 2) \div 3 + 50
        x == s.player.x + Quot(in.rnd.spawnDir.x * r, 1000)
        y == s.player.y + Quot(in.rnd.spawnDir.y * r, 1000)
        base == [ id |-> s.ids.enemy, x |-> x, y |-> y, nan |-> FALSE, vx |-> 0, vy |-> 0 ]
        elapsedTime == timestamp - s.timers.startTime
        isLevel2 == elapsedTime > 60000 /\ in.rnd.level2
        e == IF settings.modeStealth
             THEN base @@ [ radius |-> settings.enemyRadius, type |-> "stealth_sniper",
                            hp |-> 1, maxHp |-> 1, visibility |-> 0, state |-> "idle",
                            stateTimer |-> in.rnd.stateTimer ]
             ELSE IF isLevel2
             THEN base @@ [ radius |-> (settings.enemyRadius * 3) \div 2, type |-> "level2",
                            hp |-> 15, maxHp |-> 15 ] @@ NoEnemyAI
             ELSE base @@ [ radius |-> settings.enemyRadius, type |-> "level1",
                            hp |-> 2, maxHp |-> 2 ] @@ NoEnemyAI
    IN  Emit([s EXCEPT !.enemies = Append(@, e), !.ids.enemy = @ + 1],
             [ev |-> "spawn", enemy |-> e])

spawnAggregateEnemy(s, x, y, particleCount) ==
    LET radiusBase == 20
        radius == Min(100, radiusBase + particleCount \div 2)
        health == Max(20, particleCount * 2)
        e == [ id |-> s.ids.enemy, x |-> x, y |-> y, nan |-> FALSE, vx |-> 0, vy |-> 0,
               radius |-> radius, type |-> "aggregate", hp |-> health, maxHp |-> health ]
             @@ NoEnemyAI
        s1 == [s EXCEPT !.enemies = Append(@, e), !.ids.enemy = @ + 1]
    IN  Emit(pushShockwave(s1, x, y, 10, (radius * 3) \div 2, 1000),
             [ev |-> "aggregate", id |-> e.id, x |-> x, y |-> y, hp |-> health])

\* 1000 * Math.cos(0.15 * i) and 1000 * Math.sin(0.15 * i) for the shotgun's i in -2..2
CosSpread(i) == CASE Abs(i) = 0 -> 1000 [] Abs(i) = 1 -> 989 [] OTHER -> 955

SinSpread(i) == CASE i = 0 -> 0 [] i = 1 -> 149 [] i = -1 -> -149 [] i = 2 -> 296 [] OTHER -> -296

\* the weapon a shot is fired with (spawnProjectile and the fire-rate computation)
currentWeapon(s) ==
    LET w0 == IF s.localActiveWeapon # "" THEN s.localActiveWeapon ELSE settings.activeWeapon
        w1 == IF settings.modeStealth THEN "sniper" ELSE w0
    IN  IF s.buffs.explosiveAmmo THEN "nuke" ELSE w1

RECURSIVE shotgunShots(_, _, _, _, _)
shotgunShots(s, dx, dy, dist, i) ==
    IF i > 2 THEN << >>
    ELSE << [ id |-> s.ids.projectile + (i + 2), x |-> s.player.x, y |-> s.player.y,
              nan |-> (dist = 0),
              vx |-> IF dist = 0 THEN 0
                     ELSE Quot((dx * CosSpread(i) - dy * SinSpread(i)) * settings.projectileSpeed,
                               dist * 1000),
              vy |-> IF dist = 0 THEN 0
                     ELSE Quot((dx * SinSpread(i) + dy * CosSpread(i)) * settings.projectileSpeed,
                               dist * 1000),
              radius |-> settings.projectileRadius, type |-> "default",
              damage |-> 2, bounces |-> 0 ] >>
         \o shotgunShots(s, dx, dy, dist, i + 1)

\* variant: the shot that spends the last energy is still fired
spawnProjectileLastDrop(s, in, timestamp) ==
    LET drained == IF settings.modeDrainingBullets
                   THEN [s EXCEPT !.player.energy = @ - 2] ELSE s
        dx == in.mouse.x - s.player.x
        dy == in.mouse.y - s.player.y
        dist == ISqrt(dx * dx + dy * dy)
        weapon == currentWeapon(s)
        s1 == Emit(drained, [ev |-> "shootSound", weapon |-> weapon])
        one(speed, radius, type, damage) ==
            << [ id |-> s.ids.projectile, x |-> s.player.x, y |-> s.player.y,
                 nan |-> (dist = 0),
                 vx |-> Along(dx, dist, speed), vy |-> Along(dy, dist, speed),
                 radius |-> radius, type |-> type, damage |-> damage, bounces |-> 0 ] >>
        shots ==
            CASE weapon = "shotgun" -> shotgunShots(s, dx, dy, dist, -2)
              [] weapon = "machinegun" ->
                   one((settings.projectileSpeed * 6) \div 5,
                       (settings.projectileRadius * 4) \div 5, "default", 1)
              [] weapon = "nuke" ->
                   one((settings.projectileSpeed * 3) \div 5,
                       settings.projectileRadius + 4, "explosive", 0)
              [] weapon = "sniper" ->
                   one(settings.projectileSpeed * 3, settings.projectileRadius, "sniper", 50)
              [] OTHER ->
                   one(settings.projectileSpeed, settings.projectileRadius, "default", 1)
    IN  IF settings.modeDrainingBullets /\ drained.player.energy < 0
        THEN triggerDeath(drained, in, timestamp)
        ELSE Emit([s1 EXCEPT !.projectiles = @ \o shots,
                             !.ids.projectile = @ + Len(shots)],
                  [ev |-> "fire", weapon |-> weapon, shots |-> shots,
                   down |-> in.mouse.down])

\* a projectile whose aim vector has length 0 gets NaN velocity (dx / dist is 0 / 0)
spawnProjectile(s, in, timestamp) ==
    LET drained == IF settings.modeDrainingBullets
                   THEN [s EXCEPT !.player.energy = @ - 2] ELSE s
        dx == in.mouse.x - s.player.x
        dy == in.mouse.y - s.player.y
        dist == ISqrt(dx * dx + dy * dy)
        weapon == currentWeapon(s)
        s1 == Emit(drained, [ev |-> "shootSound", weapon |-> weapon])
        one(speed, radius, type, damage) ==
            << [ id |-> s.ids.projectile, x |-> s.player.x, y |-> s.player.y,
                 nan |-> (dist = 0),
                 vx |-> Along(dx, dist, speed), vy |-> Along(dy, dist, speed),
                 radius |-> radius, type |-> type, damage |-> damage, bounces |-> 0 ] >>
        shots ==
            CASE weapon = "shotgun" -> shotgunShots(s, dx, dy, dist, -2)
              [] weapon = "machinegun" ->
                   one((settings.projectileSpeed * 6) \div 5,
                       (settings.projectileRadius * 4) \div 5, "default", 1)
              [] weapon = "nuke" ->
                   one((settings.projectileSpeed * 3) \div 5,
                       settings.projectileRadius + 4, "explosive", 0)
              [] weapon = "sniper" ->
                   one(settings.projectileSpeed * 3, settings.projectileRadius, "sniper", 50)
              [] OTHER ->
                   one(settings.projectileSpeed, settings.projectileRadius, "default", 1)
    IN  IF settings.modeDrainingBullets /\ drained.player.energy <= 0
        THEN triggerDeath(drained, in, timestamp)
        ELSE Emit([s1 EXCEPT !.projectiles = @ \o shots,
                             !.ids.projectile = @ + Len(shots)],
                  [ev |-> "fire", weapon |-> weapon, shots |-> shots,
                   down |-> in.mouse.down])

InsideRect(px, py, rect) ==
    px > rect.x /\ px < rect.x + rect.width /\ py > rect.y /\ py < rect.y + rect.height

\* samples the segment every 20 px; with no step (equal end points) t is 0/0
\* and no sample is inside anything
checkLineOfSight(s, x1, y1, x2, y2) ==
    LET dist == ISqrt(Dist2(x1, y1, x2, y2))
        steps == CeilDiv(dist, 20)
    IN  \A k \in 1..Len(s.obstacles) :
            \/ steps = 0
            \/ \A i \in 0..steps :
                   ~InsideRect(x1 + Quot((x2 - x1) * i, steps),
                               y1 + Quot((y2 - y1) * i, steps), s.obstacles[k])

----------------------------------------------------------------------------
(* update(timestamp, dt): the steps that always run *)

updateShockwaves(s, dt) ==
    LET grown == [ i \in 1..Len(s.shockwaves) |->
                     [s.shockwaves[i] EXCEPT !.radius = @ + dt,
                                             !.life = @ - (dt * 3) \div 2] ]
    IN  [s EXCEPT !.shockwaves = SelectSeq(grown, LAMBDA sw : sw.life > 0)]

\* the grid cell a particle is binned into (a NaN position makes the key "NaN,NaN")
cellOf(p) == IF p.nan THEN << 0, 0, TRUE >> ELSE << p.x \div 100, p.y \div 100, FALSE >>

\* the indices of the particles the scan bins
clusterCandidates(s) ==
    { i \in 1..Len(s.particles) :
        /\ s.particles[i].type # "death"
        /\ s.particles[i].formingTargetId = -1
        /\ ~(Abs(s.particles[i].vx) + Abs(s.particles[i].vy) > 20) }

RECURSIVE weightOf(_, _)
weightOf(s, idx) ==
    IF idx = {} THEN 0
    ELSE LET i == CHOOSE j \in idx : TRUE
         IN  s.particles[i].n + weightOf(s, idx \ {i})

RECURSIVE weightedSum(_, _, _)
weightedSum(s, idx, f) ==
    IF idx = {} THEN 0
    ELSE LET i == CHOOSE j \in idx : TRUE
         IN  s.particles[i].n * s.particles[i][f] + weightedSum(s, idx \ {i}, f)

\* the candidates binned into cell c, and the size of the cell of particle i
inCell(s, cand, c) == { i \in cand : cellOf(s.particles[i]) = c }

cellLength(s, cand, i) == weightOf(s, inCell(s, cand, cellOf(s.particles[i])))

\* the centroid of the cell's particles
clusterAt(s, pts, maxLen) ==
    [ found |-> TRUE, x |-> weightedSum(s, pts, "x") \div maxLen,
      y |-> weightedSum(s, pts, "y") \div maxLen, particles |-> pts,
      length |-> maxLen ]

\* the first cell inserted among those of maxLen particles
densestCell(s, cand, maxLen) ==
    IF cand # {} /\ maxLen >= 10
    THEN LET first == CHOOSE i \in cand :
                        /\ cellLength(s, cand, i) = maxLen
                        /\ \A j \in cand : cellLength(s, cand, j) = maxLen => i <= j
         IN  clusterAt(s, inCell(s, cand, cellOf(s.particles[first])), maxLen)
    ELSE [ found |-> FALSE, x |-> 0, y |-> 0, particles |-> {}, length |-> 0 ]

\* the largest cell size among the candidates
maxCellLength(s, cand) ==
    IF cand = {} THEN 0
    ELSE CHOOSE m \in { cellLength(s, cand, i) : i \in cand } :
             \A i \in cand : cellLength(s, cand, i) <= m

scanCells(s, cand) == densestCell(s, cand, maxCellLength(s, cand))

\* the densest cell (the first one inserted among the densest), when it holds
\* at least 10 particles
findParticleCluster(s) == scanCells(s, clusterCandidates(s))

\* the particles of a found cluster are claimed for a new forming enemy
startForming(s, cluster, timestamp) ==
    IF cluster.found
    THEN [s EXCEPT
            !.timers.lastAggregationTime = timestamp,
            !.ids.forming = @ + 1,
            !.particles = [ i \in 1..Len(s.particles) |->
                IF i \in cluster.particles
                THEN [s.particles[i] EXCEPT !.formingTargetId = s.ids.forming,
                                            !.life = 10000]
                ELSE s.particles[i] ],
            !.formingEnemies = Append(@, [ id |-> s.ids.forming, x |-> cluster.x,
                y |-> cluster.y, startTime |-> timestamp,
                totalParticles |-> cluster.length,
                radiusTarget |-> 20 + cluster.length \div 2 ])]
    ELSE [s EXCEPT !.timers.lastAggregationTime = timestamp]

updateAggregation(s, timestamp) ==
    IF timestamp - s.timers.lastAggregationTime > 30000
    THEN startForming(s, findParticleCluster(s), timestamp)
    ELSE s

\* variant: the formation that spawns its enemy and leaves the claimed particles
RECURSIVE formingFilterLeavingDust(_, _, _, _)
formingFilterLeavingDust(s, timestamp, todo, kept) ==
    IF todo = << >> THEN [s EXCEPT !.formingEnemies = kept]
    ELSE
    LET fe == Head(todo)
        s1 == spawnAggregateEnemy(s, fe.x, fe.y, fe.totalParticles)
    IN  IF timestamp - fe.startTime >= 2000
        THEN formingFilterLeavingDust(s1, timestamp, Tail(todo), kept)
        ELSE formingFilterLeavingDust(s, timestamp, Tail(todo), Append(kept, fe))

\* variant: the formation that completes only after more than 2000 ms
RECURSIVE formingFilterLate(_, _, _, _)
formingFilterLate(s, timestamp, todo, kept) ==
    IF todo = << >> THEN [s EXCEPT !.formingEnemies = kept]
    ELSE
    LET fe == Head(todo)
        s1 == spawnAggregateEnemy(s, fe.x, fe.y, fe.totalParticles)
        s2 == [s1 EXCEPT !.particles =
                  SelectSeq(@, LAMBDA p : p.formingTargetId # fe.id)]
    IN  IF timestamp - fe.startTime > 2000
        THEN formingFilterLate(s2, timestamp, Tail(todo), kept)
        ELSE formingFilterLate(s, timestamp, Tail(todo), Append(kept, fe))

\* the formingEnemies.filter: a forming enemy whose 2000 ms are over becomes
\* an aggregate enemy and its particles are removed
RECURSIVE formingFilter(_, _, _, _)
formingFilter(s, timestamp, todo, kept) ==
    IF todo = << >> THEN [s EXCEPT !.formingEnemies = kept]
    ELSE
    LET fe == Head(todo)
        s1 == spawnAggregateEnemy(s, fe.x, fe.y, fe.totalParticles)
        s2 == [s1 EXCEPT !.particles =
                  SelectSeq(@, LAMBDA p : p.formingTargetId # fe.id)]
    IN  IF timestamp - fe.startTime >= 2000
        THEN formingFilter(s2, timestamp, Tail(todo), kept)
        ELSE formingFilter(s, timestamp, Tail(todo), Append(kept, fe))

updateFormingEnemies(s, timestamp) ==
    formingFilter(s, timestamp, s.formingEnemies, << >>)

RECURSIVE shockwavePush(_, _, _, _)
shockwavePush(p, s, k, dt) ==
    IF k > Len(s.shockwaves) THEN p
    ELSE
    LET sw == s.shockwaves[k]
        dx == p.x - sw.x
        dy == p.y - sw.y
        d2 == dx * dx + dy * dy
        atFront == /\ d2 < (sw.radius + 20) * (sw.radius + 20)
                   /\ (sw.radius - 20 < 0 \/ d2 > (sw.radius - 20) * (sw.radius - 20))
        mag == (800 * sw.life * dt) \div 1000000
    IN  shockwavePush(IF atFront
                      THEN [p EXCEPT !.vx = @ + CosOf(dx, dy, mag),
                                     !.vy = @ + SinOf(dx, dy, mag)]
                      ELSE p,
                      s, k + 1, dt)

\* a particle that is not claimed by a forming enemy, after the shockwaves' push
driftParticle(p, s, timestamp, dt) ==
    IF p.type = "death" /\ s.deathState.active
    THEN IF timestamp < s.deathState.gatherStartTime
         THEN [ p |-> [p EXCEPT !.x = @ + Step(p.vx, dt), !.y = @ + Step(p.vy, dt),
                                !.vx = Quot(@ * 95, 100), !.vy = Quot(@ * 95, 100)],
                gathered |-> FALSE, death |-> TRUE ]
         ELSE IF ~WithinEq(p.x, p.y, s.deathState.respawnX, s.deathState.respawnY, 10)
         THEN [ p |-> [p EXCEPT !.x = @ + Step((s.deathState.respawnX - p.x) * 5, dt),
                                !.y = @ + Step((s.deathState.respawnY - p.y) * 5, dt)],
                gathered |-> FALSE, death |-> TRUE ]
         ELSE [ p |-> [p EXCEPT !.x = s.deathState.respawnX,
                                !.y = s.deathState.respawnY],
                gathered |-> TRUE, death |-> TRUE ]
    ELSE [ p |-> [p EXCEPT !.x = @ + Step(p.vx, dt), !.y = @ + Step(p.vy, dt),
                           !.vx = Quot(@ * settings.particleDragPct, 100),
                           !.vy = Quot(@ * settings.particleDragPct, 100),
                           !.life = @ - dt],
           gathered |-> TRUE, death |-> FALSE ]

\* a particle claimed by the forming enemy fe moves towards it
gatherParticle(p0, fe, dt) ==
    [ p |-> [p0 EXCEPT !.x = @ + Step((fe.x - p0.x) * 3, dt),
                       !.y = @ + Step((fe.y - p0.y) * 3, dt)],
      gathered |-> TRUE, death |-> FALSE ]

\* one particle of the particles.forEach; gathered: it did not clear allGathered
moveParticle(p0, s, timestamp, dt) ==
    LET forming == { k \in 1..Len(s.formingEnemies) :
                        s.formingEnemies[k].id = p0.formingTargetId }
    IN  IF p0.formingTargetId # -1 /\ forming # {}
        THEN gatherParticle(p0, s.formingEnemies[CHOOSE k \in forming : TRUE], dt)
        ELSE driftParticle(IF p0.nan THEN p0 ELSE shockwavePush(p0, s, 1, dt),
                           s, timestamp, dt)

\* variant: the filter that does not keep the particles claimed by a forming enemy
settleParticlesSweeping(s, moved) ==
    [ s |-> [s EXCEPT !.particles =
                SelectSeq([ i \in 1..Len(moved) |-> moved[i].p ], LAMBDA p :
                    \/ p.type = "death" /\ s.deathState.active
                    \/ p.formingTargetId = -1 /\ p.life > 0)],
      allGathered |-> \A i \in 1..Len(moved) : moved[i].gathered,
      activeDeathParticles |-> Cardinality({ i \in 1..Len(moved) : moved[i].death }) ]

\* the particles.filter after the forEach, and what the forEach found
settleParticles(s, moved) ==
    [ s |-> [s EXCEPT !.particles =
                SelectSeq([ i \in 1..Len(moved) |-> moved[i].p ], LAMBDA p :
                    \/ p.type = "death" /\ s.deathState.active
                    \/ p.formingTargetId # -1
                    \/ p.life > 0)],
      allGathered |-> \A i \in 1..Len(moved) : moved[i].gathered,
      activeDeathParticles |-> Cardinality({ i \in 1..Len(moved) : moved[i].death }) ]

\* the particles.forEach and the particles.filter after it
updateParticles(s, timestamp, dt) ==
    settleParticles(s, [ i \in 1..Len(s.particles) |->
                           moveParticle(s.particles[i], s, timestamp, dt) ])

\* variant: the respawn that forgets to restore the player's health
updateDeathStateHurt(s, in, timestamp, allGathered, activeDeathParticles) ==
    IF timestamp > s.deathState.gatherStartTime /\ (allGathered \/ activeDeathParticles = 0)
    THEN LET s1 == [s EXCEPT !.player.x = s.deathState.respawnX,
                             !.player.y = s.deathState.respawnY,
                             !.player.energy = 100,
                             !.score = 0,
                             !.deathState.active = FALSE,
                             !.particles = SelectSeq(@, LAMBDA p : p.type # "death")]
         IN  Emit(createExplosion(s1, in, s1.player.x, s1.player.y, FALSE, 0, 0, 0, ""),
                  [ev |-> "respawn"])
    ELSE s

\* variant: the respawn that leaves the death particles in the pool
updateDeathStateKeepingDust(s, in, timestamp, allGathered, activeDeathParticles) ==
    IF timestamp > s.deathState.gatherStartTime /\ (allGathered \/ activeDeathParticles = 0)
    THEN LET s1 == [s EXCEPT !.player.x = s.deathState.respawnX,
                             !.player.y = s.deathState.respawnY,
                             !.player.health = settings.maxHealth,
                             !.player.energy = 100,
                             !.score = 0,
                             !.deathState.active = FALSE]
         IN  Emit(createExplosion(s1, in, s1.player.x, s1.player.y, FALSE, 0, 0, 0, ""),
                  [ev |-> "respawn"])
    ELSE s

\* variant: the respawn that does not wait for the death particles
updateDeathStateHasty(s, in, timestamp, allGathered, activeDeathParticles) ==
    IF timestamp > s.deathState.gatherStartTime
    THEN LET s1 == [s EXCEPT !.player.x = s.deathState.respawnX,
                             !.player.y = s.deathState.respawnY,
                             !.player.health = settings.maxHealth,
                             !.player.energy = 100,
                             !.score = 0,
                             !.deathState.active = FALSE,
                             !.particles = SelectSeq(@, LAMBDA p : p.type # "death")]
         IN  Emit(createExplosion(s1, in, s1.player.x, s1.player.y, FALSE, 0, 0, 0, ""),
                  [ev |-> "respawn"])
    ELSE s

\* the DEATH STATE block, entered with deathState.active
updateDeathState(s, in, timestamp, allGathered, activeDeathParticles) ==
    IF timestamp > s.deathState.gatherStartTime /\ (allGathered \/ activeDeathParticles = 0)
    THEN LET s1 == [s EXCEPT !.player.x = s.deathState.respawnX,
                             !.player.y = s.deathState.respawnY,
                             !.player.health = settings.maxHealth,
                             !.player.energy = 100,
                             !.score = 0,
                             !.deathState.active = FALSE,
                             !.particles = SelectSeq(@, LAMBDA p : p.type # "death")]
         IN  Emit(createExplosion(s1, in, s1.player.x, s1.player.y, FALSE, 0, 0, 0, ""),
                  [ev |-> "respawn"])
    ELSE s

----------------------------------------------------------------------------
(* update(timestamp, dt): the normal game loop *)

\* 1000 * Math.cos(k / 10) and 1000 * Math.sin(k / 10) for k in 0..79
CosTable ==
    <<
       1000, 995, 980, 955, 921, 878, 825, 765, 697, 622,
       540, 454, 362, 267, 170, 71, -29, -129, -227, -323,
       -416, -505, -589, -666, -737, -801, -857, -904, -942, -971,
       -990, -999, -998, -987, -967, -936, -897, -848, -791, -726,
       -654, -575, -490, -401, -307, -211, -112, -12, 87, 187,
       284, 378, 469, 554, 635, 709, 776, 835, 886, 927,
       960, 983, 997, 1000, 993, 977, 950, 914, 869, 816,
       754, 685, 608, 526, 439, 347, 251, 153, 54, -46 >>

SinTable ==
    <<
       0, 100, 199, 296, 389, 479, 565, 644, 717, 783,
       841, 891, 932, 964, 985, 997, 1000, 992, 974, 946,
       909, 863, 808, 746, 675, 598, 516, 427, 335, 239,
       141, 42, -58, -158, -256, -351, -443, -530, -612, -688,
       -757, -818, -872, -916, -952, -978, -994, -1000, -996, -982,
       -959, -926, -883, -832, -773, -706, -631, -551, -465, -374,
       -279, -182, -83, 17, 117, 215, 312, 405, 494, 578,
       657, 729, 794, 850, 899, 938, 968, 988, 999, 999 >>

CosTenths(k) == CosTable[k + 1]

SinTenths(k) == SinTable[k + 1]

updateBuffs(s, timestamp) ==
    [s EXCEPT !.buffs.fireRate = timestamp < s.buffs.fireRateUntil,
              !.buffs.speed = timestamp < s.buffs.speedUntil,
              !.buffs.timeSlow = timestamp < s.buffs.timeSlowUntil,
              !.buffs.explosiveAmmo = timestamp < s.buffs.explosiveAmmoUntil]

\* settings.playerSpeed with the speed buff, the time-slow buff and the stealth crawl
currentSpeed(s, in) ==
    LET v0 == settings.playerSpeed
        v1 == IF s.buffs.speed THEN (v0 * 3) \div 2 ELSE v0
        v2 == IF s.buffs.timeSlow THEN v1 \div 2 ELSE v1
    IN  IF settings.modeStealth /\ "shift" \notin in.keys THEN (v2 * 2) \div 5 ELSE v2

\* the displacement the held keys ask for
moveDelta(s, in, dt) ==
    LET moveStep == Step(currentSpeed(s, in), dt)
        dy == (IF "s" \in in.keys THEN moveStep ELSE 0) - (IF "w" \in in.keys THEN moveStep ELSE 0)
        dx == (IF "d" \in in.keys THEN moveStep ELSE 0) - (IF "a" \in in.keys THEN moveStep ELSE 0)
        len == ISqrt(dx * dx + dy * dy)
    IN  IF dx # 0 /\ dy # 0
        THEN [ dx |-> Quot(dx * moveStep, len), dy |-> Quot(dy * moveStep, len) ]
        ELSE [ dx |-> dx, dy |-> dy ]

updateMovement(s, in, dt) ==
    LET d == moveDelta(s, in, dt)
        newX == s.player.x + d.dx
        newY == s.player.y + d.dy
        pr == settings.playerRadius
        collided == \E k \in 1..Len(s.obstacles) :
                        LET o == s.obstacles[k]
                        IN  /\ newX + pr > o.x /\ newX - pr < o.x + o.width
                            /\ newY + pr > o.y /\ newY - pr < o.y + o.height
        x1 == IF settings.modeStealth /\ collided THEN s.player.x ELSE newX
        y1 == IF settings.modeStealth /\ collided THEN s.player.y ELSE newY
        isMoving == d.dx # 0 \/ d.dy # 0
        targetVisibility ==
            IF "shift" \in in.keys /\ isMoving THEN 1000
            ELSE IF isMoving THEN 600
            ELSE IF in.mouse.velocity > 2 THEN 300
            ELSE 50
    IN  [s EXCEPT
           !.player.x = Max(pr, Min(canvas.width - pr, x1)),
           !.player.y = Max(pr, Min(canvas.height - pr, y1)),
           !.player.visibility =
               IF settings.modeStealth THEN @ + Step((targetVisibility - @) * 5, dt)
               ELSE 1000]

updateEnergy(s, in, dt) ==
    IF settings.modeDrainingBullets
    THEN IF ~in.mouse.down /\ s.player.energy < 100
         THEN [s EXCEPT !.player.energy = Min(100, @ + dt \div 100)]
         ELSE s
    ELSE [s EXCEPT !.player.energy = 100]

\* variant: the floor of the spawn interval at 40 ms
updateSpawningLowFloor(s, in, timestamp) ==
    LET spawnRate == IF s.buffs.timeSlow THEN s.currentSpawnRate * 2 ELSE s.currentSpawnRate
        s1 == spawnEnemy(s, in, timestamp)
    IN  IF timestamp - s.timers.lastSpawnTime > spawnRate
        THEN [s1 EXCEPT !.timers.lastSpawnTime = timestamp,
                        !.currentSpawnRate =
                            IF ~settings.modeStealth
                            THEN Max(40, @ - settings.enemySpawnIncreaseRate)
                            ELSE @]
        ELSE s

updateSpawning(s, in, timestamp) ==
    LET spawnRate == IF s.buffs.timeSlow THEN s.currentSpawnRate * 2 ELSE s.currentSpawnRate
        s1 == spawnEnemy(s, in, timestamp)
    IN  IF timestamp - s.timers.lastSpawnTime > spawnRate
        THEN [s1 EXCEPT !.timers.lastSpawnTime = timestamp,
                        !.currentSpawnRate =
                            IF ~settings.modeStealth
                            THEN Max(50, @ - settings.enemySpawnIncreaseRate)
                            ELSE @]
        ELSE s

\* the quotes, each line as the lengths of its words (single spaces between them);
\* the author line is "- " followed by the author
QUOTES ==
    <<
      [ text |-> << 11, 2, 4, 9, 4, 10 >>,
        author |-> << 1, 6, 8 >> ],
      [ text |-> << 1, 5, 9, 1, 3 >>,
        author |-> << 1, 5, 9 >> ],
      [ text |-> << 2, 5, 2, 7 >>,
        author |-> << 1, 5, 3 >> ],
      [ text |-> << 9, 2, 6 >>,
        author |-> << 1, 7, 5 >> ],
      [ text |-> << 4, 3, 5, 5 >>,
        author |-> << 1, 7, 5 >> ],
      [ text |-> << 5, 5 >>,
        author |-> << 1, 6 >> ],
      [ text |-> << 3, 10, 4, 2, 3, 5, 7 >>,
        author |-> << 1, 8 >> ],
      [ text |-> << 1, 4, 4, 1, 4, 8 >>,
        author |-> << 1, 8 >> ],
      [ text |-> << 4, 2, 5, 7 >>,
        author |-> << 1, 9, 6 >> ],
      [ text |-> << 3, 2, 5 >>,
        author |-> << 1, 9, 9 >> ],
      [ text |-> << 6, 10, 3, 2, 4, 2, 14, 3, 2, 2, 4, 9, 4, 3, 2, 3 >>,
        author |-> << 1, 7, 6 >> ] >>

\* the number of characters of a line given as word lengths
lineLength(words) == IF words = << >> THEN 0 ELSE SumSeq(words) + Len(words) - 1

\* the word wrap of spawnQuote: the lines, each as word lengths
RECURSIVE wrapWords(_, _, _)
wrapWords(words, currentLine, maxLineWidth) ==
    IF words = << >> THEN << currentLine >>
    ELSE LET word == Head(words)
             width == (lineLength(currentLine) + 1 + word) * 10
         IN  IF width < maxLineWidth
             THEN wrapWords(Tail(words), Append(currentLine, word), maxLineWidth)
             ELSE << currentLine >> \o wrapWords(Tail(words), << word >>, maxLineWidth)

\* the character indices (0-based) of the non-space characters of a line
RECURSIVE letterColumns(_, _)
letterColumns(words, from) ==
    IF words = << >> THEN << >>
    ELSE [ j \in 1..Head(words) |-> from + j - 1 ]
         \o letterColumns(Tail(words), from + Head(words) + 1)

RECURSIVE quoteLetters(_, _, _, _)
quoteLetters(lines, lineIndex, startY, nextId) ==
    IF lineIndex > Len(lines) THEN << >>
    ELSE
    LET line == lines[lineIndex]
        lineWidth == lineLength(line) * 10
        startX == Quot(canvas.width - lineWidth, 2)
        cols == letterColumns(line, 0)
    IN  [ j \in 1..Len(cols) |->
            [ id |-> nextId + j - 1, x |-> startX + cols[j] * 10,
              y |-> startY + (lineIndex - 1) * 24, radius |-> 8, life |-> 40000 ] ]
        \o quoteLetters(lines, lineIndex + 1, startY, nextId + Len(cols))

\* in.rnd.quote is the index drawn in QUOTES
spawnQuote(s, in) ==
    LET quoteObj == QUOTES[in.rnd.quote]
        maxLineWidth == Min(600, canvas.width - 100)
        lines == wrapWords(Tail(quoteObj.text), << Head(quoteObj.text) >>, maxLineWidth)
                 \o << << >>, quoteObj.author >>
        totalHeight == Len(lines) * 24
        startY == Quot(canvas.height - totalHeight, 2)
        made == quoteLetters(lines, 1, startY, s.ids.letter)
    IN  [s EXCEPT !.letters = @ \o made, !.ids.letter = @ + Len(made)]

updateQuotes(s, in, timestamp) ==
    IF timestamp - s.timers.lastQuoteSpawnTime > settings.quoteSpawnInterval
    THEN [spawnQuote(s, in) EXCEPT !.timers.lastQuoteSpawnTime = timestamp]
    ELSE s

\* variant: the sniper fires at the rate of the other guns
fireIntervalNoLoad(s) ==
    LET weapon == currentWeapon(s)
        f0 == settings.projectileFireRate
        f1 == IF s.buffs.fireRate THEN f0 \div 2 ELSE f0
        f2 == IF weapon = "machinegun" THEN f1 \div 3 ELSE f1
        f3 == IF weapon = "shotgun" THEN f2 * 3 ELSE f2
    IN  IF s.buffs.explosiveAmmo \/ weapon = "nuke" THEN Max(f3, 400) ELSE f3

\* the interval a shot must wait after the previous one
fireInterval(s) ==
    LET weapon == currentWeapon(s)
        f0 == settings.projectileFireRate
        f1 == IF s.buffs.fireRate THEN f0 \div 2 ELSE f0
        f2 == IF weapon = "machinegun" THEN f1 \div 3 ELSE f1
        f3 == IF weapon = "shotgun" THEN f2 * 3 ELSE f2
        f4 == IF weapon = "sniper" THEN 2000 ELSE f3
    IN  IF s.buffs.explosiveAmmo \/ weapon = "nuke" THEN Max(f4, 400) ELSE f4

updateShooting(s, in, timestamp) ==
    IF in.mouse.down /\ timestamp - s.timers.lastShotTime > fireInterval(s)
    THEN [spawnProjectile(s, in, timestamp) EXCEPT !.timers.lastShotTime = timestamp]
    ELSE s

RECURSIVE obstacleFilter(_, _, _, _)
obstacleFilter(s, in, todo, kept) ==
    IF todo = << >> THEN [s EXCEPT !.projectiles = kept]
    ELSE
    LET p == Head(todo)
        hit == (~p.nan) /\ \E k \in 1..Len(s.obstacles) : InsideRect(p.x, p.y, s.obstacles[k])
    IN  IF hit
        THEN obstacleFilter(createExplosion(s, in, p.x, p.y, FALSE,
                                            Quot(-p.vx, 2), Quot(-p.vy, 2), 3, "#fff"),
                            in, Tail(todo), kept)
        ELSE obstacleFilter(s, in, Tail(todo), Append(kept, p))

\* a projectile with a NaN position fails every comparison of the screen filter
updateProjectiles(s, in, dt) ==
    LET moved == [ i \in 1..Len(s.projectiles) |->
                     [s.projectiles[i] EXCEPT !.x = @ + Step(s.projectiles[i].vx, dt),
                                              !.y = @ + Step(s.projectiles[i].vy, dt)] ]
        s1 == [s EXCEPT !.projectiles = moved]
        s2 == IF settings.modeStealth THEN obstacleFilter(s1, in, moved, << >>) ELSE s1
    IN  [s2 EXCEPT !.projectiles = SelectSeq(@, LAMBDA p :
            /\ ~p.nan
            /\ p.x >= -50 /\ p.x <= canvas.width + 50
            /\ p.y >= -50 /\ p.y <= canvas.height + 50)]

\* the AI state machine and visibility of one stealth sniper, before it aims
sniperThink(e, in, dt) ==
    LET timer == e.stateTimer - dt
        e1 == IF timer <= 0 /\ e.state = "idle"
              THEN [e EXCEPT !.state = "moving", !.stateTimer = 1000 + in.rnd.stateTimer,
                             !.vx = in.rnd.sniperDir.x * settings.enemySpeed,
                             !.vy = in.rnd.sniperDir.y * settings.enemySpeed]
              ELSE IF timer <= 0 /\ e.state = "moving"
              THEN [e EXCEPT !.state = "idle", !.stateTimer = 2000 + in.rnd.stateTimer,
                             !.vx = 0, !.vy = 0]
              ELSE [e EXCEPT !.stateTimer = timer]
        isMoving == e1.vx # 0 \/ e1.vy # 0
        targetVis == IF isMoving THEN 1000 ELSE 50
    IN  [e1 EXCEPT !.visibility = @ + Step((targetVis - @) * 5, dt)]

\* the velocity of a chasing enemy: enemySpeed towards the player, times
\* 0.3 under time-slow, times 0.5 for an aggregate
chase(e, s) ==
    LET dx == s.player.x - e.x
        dy == s.player.y - e.y
        dist == ISqrt(dx * dx + dy * dy)
        tenths == IF s.buffs.timeSlow THEN 3 ELSE 10
        halves == IF e.type = "aggregate" THEN 1 ELSE 2
    IN  IF e.nan \/ dist = 0 THEN e
        ELSE [e EXCEPT !.vx = Quot(dx * settings.enemySpeed * tenths * halves, dist * 20),
                       !.vy = Quot(dy * settings.enemySpeed * tenths * halves, dist * 20)]

advance(e, dt) == [e EXCEPT !.x = @ + Step(e.vx, dt), !.y = @ + Step(e.vy, dt)]

\* a sniper's shot at the player: after the 20 damage (in `hurt`), death at
\* health <= 0, then the muzzle explosion and the shot sound
sniperShot(hurt, in, timestamp) ==
    LET s1 == IF hurt.player.health <= 0 THEN triggerDeath(hurt, in, timestamp) ELSE hurt
        s2 == createExplosion(s1, in, hurt.player.x, hurt.player.y, FALSE, 0, 0, 10, "#ff0000")
    IN  Emit(s2, [ev |-> "shootSound", weapon |-> "sniper"])

\* enemies.forEach: arr is the array being iterated; once triggerDeath has
\* replaced enemiesRef.current (detached) the iteration goes on over arr, which
\* is no longer the pool
RECURSIVE enemyLoop(_, _, _, _, _, _, _)
enemyLoop(s, in, timestamp, dt, arr, k, detached) ==
    IF k > Len(arr) THEN (IF detached THEN s ELSE [s EXCEPT !.enemies = arr])
    ELSE
    LET e == arr[k]
        isSniper == settings.modeStealth /\ e.type = "stealth_sniper"
        e1 == sniperThink(e, in, dt)
        fires == /\ isSniper
                 /\ e1.state = "idle" /\ s.player.visibility > 200
                 /\ (e1.nan \/ checkLineOfSight(s, e1.x, e1.y, s.player.x, s.player.y))
                 /\ in.rnd.sniperFire /\ dt > 0
        hurt == [s EXCEPT !.player.health = @ - 20,
                          !.enemies = IF detached THEN @ ELSE [arr EXCEPT ![k] = e1]]
        e2 == [e1 EXCEPT !.visibility = 1000]
    IN  IF isSniper
        THEN IF fires
             THEN enemyLoop(sniperShot(hurt, in, timestamp), in, timestamp, dt,
                            [arr EXCEPT ![k] = advance(e2, dt)],
                            k + 1, detached \/ s.player.health - 20 <= 0)
             ELSE enemyLoop(s, in, timestamp, dt, [arr EXCEPT ![k] = advance(e1, dt)],
                            k + 1, detached)
        ELSE enemyLoop(s, in, timestamp, dt, [arr EXCEPT ![k] = advance(chase(e, s), dt)],
                       k + 1, detached)

updateEnemies(s, in, timestamp, dt) ==
    enemyLoop(s, in, timestamp, dt, s.enemies, 1, FALSE)

updatePerksAndLetters(s, dt) ==
    LET drifted == [ i \in 1..Len(s.perks) |->
                       [s.perks[i] EXCEPT
                          !.x = @ + Quot(CosTenths(10 * s.perks[i].id) * 10 * dt, 1000000),
                          !.y = @ + Quot(SinTenths(10 * s.perks[i].id) * 10 * dt, 1000000)] ]
        aged == [ i \in 1..Len(s.letters) |->
                    [s.letters[i] EXCEPT
                       !.x = @ + Quot(CosTenths(s.letters[i].id) * 2 * dt, 1000000),
                       !.y = @ + Quot(SinTenths(s.letters[i].id) * 2 * dt, 1000000),
                       !.life = @ - dt] ]
    IN  [s EXCEPT !.perks = drifted,
                  !.letters = SelectSeq(aged, LAMBDA l : l.life > 0)]

----------------------------------------------------------------------------
(* update(timestamp, dt): collisions *)

Overlaps(a, b, r) == (~a.nan) /\ (~b.nan) /\ Within(a.x, a.y, b.x, b.y, r)

\* `hp || 1`
HpOr1(hp) == IF hp = 0 THEN 1 ELSE hp

\* the enemies.filter of an explosive hit.  The callback runs over the array
\* that killEnemy splices: k is the index visited (1-based), len0 the length
\* when the filter started; an index that no longer exists is skipped, and
\* result is what the filter returns.
RECURSIVE splashFilter(_, _, _, _, _, _)
splashFilter(s, in, proj, k, len0, result) ==
    IF k > len0 THEN [s EXCEPT !.enemies = result]
    ELSE IF k > Len(s.enemies) THEN splashFilter(s, in, proj, k + 1, len0, result)
    ELSE
    LET e == s.enemies[k]
        ex == e.x - proj.x
        ey == e.y - proj.y
        edist == ISqrt(ex * ex + ey * ey)
        inBlast == (~e.nan) /\ WithinEq(e.x, e.y, proj.x, proj.y, 80)
        hp1 == HpOr1(e.hp) - 10
        hurt == [e EXCEPT !.hp = hp1]
        pushed == IF edist = 0 THEN [hurt EXCEPT !.nan = TRUE]
                  ELSE [hurt EXCEPT !.x = @ + Quot(ex * 20, edist),
                                    !.y = @ + Quot(ey * 20, edist)]
    IN  IF inBlast
        THEN IF hp1 <= 0
             THEN splashFilter(killEnemy([s EXCEPT !.enemies[k] = hurt], in, k, ex * 2, ey * 2),
                               in, proj, k + 1, len0, result)
             ELSE splashFilter([s EXCEPT !.enemies[k] = pushed], in, proj, k + 1, len0,
                               Append(result, pushed))
        ELSE splashFilter(s, in, proj, k + 1, len0, Append(result, e))

explosiveHit(s, in, proj) ==
    LET s1 == createExplosion(s, in, proj.x, proj.y, FALSE, 0, 0, 0, "")
        s2 == pushShockwave(s1, proj.x, proj.y, 5, 80, 500)
    IN  splashFilter(s2, in, proj, 1, Len(s.enemies), << >>)

\* variant: a hit that takes hp to 0 or less leaves the enemy in the pool
standardDamageNoKill(s, in, proj, j) ==
    LET enemy == s.enemies[j]
        damage == IF proj.damage = 0 THEN 1 ELSE proj.damage
        hp1 == HpOr1(enemy.hp) - damage
        s1 == [s EXCEPT !.enemies[j].hp = hp1,
                        !.enemies[j].x = @ + CosOf(proj.vx, proj.vy, 5),
                        !.enemies[j].y = @ + SinOf(proj.vx, proj.vy, 5)]
    IN  Emit(createExplosion(s1, in, proj.x, proj.y, FALSE,
                             Quot(-proj.vx, 2), Quot(-proj.vy, 2), 3, "#fff"),
             [ev |-> "hitSound"])

\* variant: a hit that takes the projectile's damage twice
standardDamageTwice(s, in, proj, j) ==
    LET enemy == s.enemies[j]
        damage == IF proj.damage = 0 THEN 1 ELSE proj.damage
        hp1 == HpOr1(enemy.hp) - 2 * damage
        s1 == [s EXCEPT !.enemies[j].hp = hp1]
        s2 == [s1 EXCEPT !.enemies[j].x = @ + CosOf(proj.vx, proj.vy, 5),
                         !.enemies[j].y = @ + SinOf(proj.vx, proj.vy, 5)]
    IN  IF hp1 <= 0 THEN killEnemy(s1, in, j, proj.vx, proj.vy)
        ELSE Emit(createExplosion(s2, in, proj.x, proj.y, FALSE,
                                  Quot(-proj.vx, 2), Quot(-proj.vy, 2), 3, "#fff"),
                  [ev |-> "hitSound"])

\* the damage of a non-explosive projectile on enemies[j]
standardDamage(s, in, proj, j) ==
    LET enemy == s.enemies[j]
        damage == IF proj.damage = 0 THEN 1 ELSE proj.damage
        hp1 == HpOr1(enemy.hp) - damage
        s1 == [s EXCEPT !.enemies[j].hp = hp1]
        s2 == [s1 EXCEPT !.enemies[j].x = @ + CosOf(proj.vx, proj.vy, 5),
                         !.enemies[j].y = @ + SinOf(proj.vx, proj.vy, 5)]
    IN  IF hp1 <= 0 THEN killEnemy(s1, in, j, proj.vx, proj.vy)
        ELSE Emit(createExplosion(s2, in, proj.x, proj.y, FALSE,
                                  Quot(-proj.vx, 2), Quot(-proj.vy, 2), 3, "#fff"),
                  [ev |-> "hitSound"])

\* variant: the projectile gets one bounce more than configured
bouncesOneMore(proj) ==
    settings.projectileBounces > 0 /\ proj.bounces <= settings.projectileBounces

\* does the projectile go on after a hit
bounces(proj) ==
    settings.projectileBounces > 0 /\ proj.bounces < settings.projectileBounces

\* the projectile after a bounce off an enemy at offset (dx, dy) = proj - enemy
reflect(proj, enemy) ==
    LET dx == proj.x - enemy.x
        dy == proj.y - enemy.y
        d2 == dx * dx + dy * dy
        dist == ISqrt(d2)
        dotd == proj.vx * dx + proj.vy * dy
        overlap == (enemy.radius + proj.radius) - dist
        p1 == [proj EXCEPT !.bounces = @ + 1]
    IN  IF dist = 0 THEN [p1 EXCEPT !.nan = TRUE]
        ELSE [p1 EXCEPT
                !.vx = IF dotd < 0 THEN @ - Quot(2 * dotd * dx, d2) ELSE @,
                !.vy = IF dotd < 0 THEN @ - Quot(2 * dotd * dy, d2) ELSE @,
                !.x = @ + Quot(dx * (overlap + 2), dist),
                !.y = @ + Quot(dy * (overlap + 2), dist)]

\* the body of the loop over projectiles for projectiles[i]: the first enemy
\* it overlaps, searched from the last index down
projectileStep(s, in, i) ==
    LET proj == s.projectiles[i]
        touched == { j \in 1..Len(s.enemies) :
                       Overlaps(proj, s.enemies[j],
                                s.enemies[j].radius + proj.radius) }
        j == CHOOSE m \in touched : \A n \in touched : n <= m
        enemy == s.enemies[j]
        s0 == Emit(s, [ev |-> "contact", proj |-> proj, index |-> j,
                       before |-> s.enemies])
        sx == explosiveHit(s0, in, proj)
        sd == standardDamage(s0, in, proj, j)
    IN  IF touched = {} THEN s
        ELSE IF proj.type = "explosive"
        THEN [sx EXCEPT !.projectiles = RemoveAt(@, i)]
        ELSE IF bounces(proj)
        THEN [sd EXCEPT !.projectiles[i] = reflect(proj, enemy)]
        ELSE [sd EXCEPT !.projectiles = RemoveAt(@, i)]

RECURSIVE projectileLoop(_, _, _)
projectileLoop(s, in, i) ==
    IF i < 1 THEN s ELSE projectileLoop(projectileStep(s, in, i), in, i - 1)

updateProjectileHits(s, in) == projectileLoop(s, in, Len(s.projectiles))

\* a variant whose shell removes the enemy without the kill's bookkeeping
shellKillUnscored(s, in, i) ==
    LET enemy == s.enemies[i]
        killed == [s EXCEPT !.enemies = RemoveAt(@, i)]
    IN  Emit(killed, [ev |-> "shellKill", enemy |-> enemy,
                      scoreBefore |-> s.score, scoreAfter |-> killed.score,
                      killsBefore |-> s.kills, killsAfter |-> killed.kills])

\* the shell's answer to a touch: the enemy at index i is killed
shellKill(s, in, i) ==
    LET enemy == s.enemies[i]
        killed == killEnemy(s, in, i, enemy.vx * (-2), enemy.vy * (-2))
    IN  Emit(killed, [ev |-> "shellKill", enemy |-> enemy,
                      scoreBefore |-> s.score, scoreAfter |-> killed.score,
                      killsBefore |-> s.kills, killsAfter |-> killed.kills])

\* variant: a touch triggers death only when it takes health below zero
RECURSIVE playerContactLoopLenient(_, _, _, _)
playerContactLoopLenient(s, in, timestamp, i) ==
    IF i < 1 THEN s
    ELSE IF i > Len(s.enemies) THEN playerContactLoopLenient(s, in, timestamp, i - 1)
    ELSE
    LET enemy == s.enemies[i]
        hitRadius == IF s.buffs.shell THEN settings.playerRadius + 20
                     ELSE settings.playerRadius
        touching == (~enemy.nan) /\ Within(s.player.x, s.player.y, enemy.x, enemy.y,
                                           hitRadius + enemy.radius)
        dx == s.player.x - enemy.x
        dy == s.player.y - enemy.y
        hurt == Emit([s EXCEPT !.player.health = @ - 10,
                               !.enemies[i].x = @ - CosOf(dx, dy, 50),
                               !.enemies[i].y = @ - SinOf(dx, dy, 50)],
                     [ev |-> "playerHit", enemy |-> enemy.id, x |-> enemy.x, y |-> enemy.y,
                      radius |-> enemy.radius, px |-> s.player.x, py |-> s.player.y])
    IN  IF ~touching THEN playerContactLoopLenient(s, in, timestamp, i - 1)
        ELSE IF s.buffs.shell
        THEN playerContactLoopLenient(shellKill(s, in, i), in, timestamp, i - 1)
        ELSE IF hurt.player.health < 0 THEN triggerDeath(hurt, in, timestamp)
        ELSE playerContactLoopLenient(hurt, in, timestamp, i - 1)

\* the loop over enemies against the player, from the last index down
RECURSIVE playerContactLoop(_, _, _, _)
playerContactLoop(s, in, timestamp, i) ==
    IF i < 1 THEN s
    ELSE IF i > Len(s.enemies) THEN playerContactLoop(s, in, timestamp, i - 1)
    ELSE
    LET enemy == s.enemies[i]
        hitRadius == IF s.buffs.shell THEN settings.playerRadius + 20
                     ELSE settings.playerRadius
        touching == (~enemy.nan) /\ Within(s.player.x, s.player.y, enemy.x, enemy.y,
                                           hitRadius + enemy.radius)
        dx == s.player.x - enemy.x
        dy == s.player.y - enemy.y
        hurt == Emit([s EXCEPT !.player.health = @ - 10,
                               !.enemies[i].x = @ - CosOf(dx, dy, 50),
                               !.enemies[i].y = @ - SinOf(dx, dy, 50)],
                     [ev |-> "playerHit", enemy |-> enemy.id, x |-> enemy.x, y |-> enemy.y,
                      radius |-> enemy.radius, px |-> s.player.x, py |-> s.player.y])
    IN  IF ~touching THEN playerContactLoop(s, in, timestamp, i - 1)
        ELSE IF s.buffs.shell
        THEN playerContactLoop(shellKill(s, in, i), in, timestamp, i - 1)
        ELSE IF hurt.player.health <= 0 THEN triggerDeath(hurt, in, timestamp)
        ELSE playerContactLoop(hurt, in, timestamp, i - 1)

updatePlayerContacts(s, in, timestamp) ==
    playerContactLoop(s, in, timestamp, Len(s.enemies))

weaponOfPerk(type) ==
    CASE type = "weapon_shotgun" -> "shotgun"
      [] type = "weapon_machinegun" -> "machinegun"
      [] type = "weapon_blaster" -> "blaster"
      [] type = "weapon_sniper" -> "sniper"
      [] OTHER -> ""

IsWeaponPerk(type) ==
    type \in {"weapon_shotgun", "weapon_machinegun", "weapon_blaster", "weapon_sniper"}

RECURSIVE perkLoop(_, _, _, _)
perkLoop(s, in, timestamp, i) ==
    IF i < 1 THEN s
    ELSE
    LET perk == s.perks[i]
        near == Within(s.player.x, s.player.y, perk.x, perk.y,
                       settings.playerRadius + perk.radius)
        taken == IF IsWeaponPerk(perk.type)
                 THEN Emit([s EXCEPT !.localActiveWeapon = weaponOfPerk(perk.type)],
                           [ev |-> "powerupSound"])
                 ELSE activatePerk(s, in, perk.type, timestamp)
    IN  IF near
        THEN perkLoop(Emit([taken EXCEPT !.perks = RemoveAt(@, i)],
                           [ev |-> "pickup", type |-> perk.type, id |-> perk.id,
                            before |-> s.enemies,
                            shockwaves |-> s.shockwaves, score |-> s.score,
                            kills |-> s.kills]),
                      in, timestamp, i - 1)
        ELSE perkLoop(s, in, timestamp, i - 1)

\* the loop over letters: a letter the player touches is worth 10 points
collectLetters(s) ==
    LET got == { i \in 1..Len(s.letters) :
                   Within(s.player.x, s.player.y, s.letters[i].x, s.letters[i].y,
                          settings.playerRadius + s.letters[i].radius) }
    IN  [s EXCEPT !.score = @ + 10 * Cardinality(got),
                  !.letters = SelectSeq(@, LAMBDA l :
                      ~Within(s.player.x, s.player.y, l.x, l.y,
                              settings.playerRadius + l.radius))]

updatePickups(s, in, timestamp) ==
    collectLetters(perkLoop(s, in, timestamp, Len(s.perks)))

----------------------------------------------------------------------------
(* update and the animation-frame loop *)

normalLoop(s, in, timestamp, dt) ==
    LET s1 == updateBuffs(s, timestamp)
        s2 == updateMovement(s1, in, dt)
        s3 == updateEnergy(s2, in, dt)
        s4 == updateSpawning(s3, in, timestamp)
        s5 == updateQuotes(s4, in, timestamp)
        s6 == updateShooting(s5, in, timestamp)
        s7 == updateProjectiles(s6, in, dt)
        s8 == updateEnemies(s7, in, timestamp, dt)
        s9 == updatePerksAndLetters(s8, dt)
        s10 == updateProjectileHits(s9, in)
        s11 == updatePlayerContacts(s10, in, timestamp)
    IN  updatePickups(s11, in, timestamp)

\* what update does after the particle pass r: the death state or the normal loop
afterParticles(r, in, timestamp, dt) ==
    IF r.s.deathState.active
    THEN updateDeathState(r.s, in, timestamp, r.allGathered, r.activeDeathParticles)
    ELSE normalLoop(r.s, in, timestamp, dt)

update(s, in, timestamp, dt) ==
    LET s1 == updateShockwaves(s, dt)
        s2 == updateAggregation(s1, timestamp)
        s3 == updateFormingEnemies(s2, timestamp)
    IN  afterParticles(updateParticles(s3, timestamp, dt), in, timestamp, dt)

\* variant: the report that is made 100 ms after the last one already
reportStatsEarly(s, timestamp) ==
    IF timestamp - s.timers.lastStatsUpdate >= 100
    THEN Emit([s EXCEPT !.timers.lastStatsUpdate = timestamp],
              [ev |-> "updateStats",
               health |-> IF s.deathState.active THEN 0 ELSE Max(0, s.player.health),
               score |-> s.score, kills |-> s.kills])
    ELSE s

\* the throttled onUpdateStats call: at most once per 100 ms
reportStats(s, timestamp) ==
    IF timestamp - s.timers.lastStatsUpdate > 100
    THEN Emit([s EXCEPT !.timers.lastStatsUpdate = timestamp],
              [ev |-> "updateStats",
               health |-> IF s.deathState.active THEN 0 ELSE Max(0, s.player.health),
               score |-> s.score, kills |-> s.kills])
    ELSE s

\* variant: the callback that runs update whether paused or not
loopIgnoringPause(s, in) ==
    LET timestamp == in.timestamp
        last == IF s.timers.lastTime = 0 THEN timestamp ELSE s.timers.lastTime
        dt == timestamp - last
        s1 == [s EXCEPT !.timers.lastTime = timestamp]
    IN  reportStats(update(s1, in, timestamp, dt), timestamp)

\* the requestAnimationFrame callback, as a function of the state
loop(s, in) ==
    LET timestamp == in.timestamp
        last == IF s.timers.lastTime = 0 THEN timestamp ELSE s.timers.lastTime
        dt == timestamp - last
        s1 == [s EXCEPT !.timers.lastTime = timestamp]
    IN  reportStats(IF ~isPaused THEN update(s1, in, timestamp, dt) ELSE s1, timestamp)

\* the free sessions of a user who has not unlocked the game
MAX_FREE_SESSIONS == 30

\* handleGameOver of App, called by triggerDeath through onGameOver: 2000 ms
\* and then 500 ms later the game is paused and the game-over screen shown;
\* a is the state of App, s what the handler returned
handleGameOver(a, s) ==
    LET calls == SelectSeq(s.log, LAMBDA e : e.ev = "gameOver")
    IN  [a EXCEPT !.gameOverDue = @ \o [ k \in 1..Len(calls) |-> s.timers.lastTime + 2500 ]]

\* the refs after a handler that returned s, and the state of App after the
\* callbacks the handler made
Settles(s, step) ==
    /\ app' = handleGameOver(app, s)
    /\ player' = s.player
    /\ enemies' = s.enemies
    /\ projectiles' = s.projectiles
    /\ particles' = s.particles
    /\ perks' = s.perks
    /\ letters' = s.letters
    /\ shockwaves' = s.shockwaves
    /\ obstacles' = s.obstacles
    /\ formingEnemies' = s.formingEnemies
    /\ deathState' = s.deathState
    /\ score' = s.score
    /\ kills' = s.kills
    /\ buffs' = s.buffs
    /\ shellTimers' = s.shellTimers
    /\ localActiveWeapon' = s.localActiveWeapon
    /\ currentSpawnRate' = s.currentSpawnRate
    /\ timers' = s.timers
    /\ ids' = s.ids
    /\ obs' = [ step |-> step, paused |-> isPaused, log |-> s.log ]

\* the state after a frame whose callback returned s; the perk and letter id
\* counters are capped
Becomes(s) ==
    /\ s.ids.perk <= 8
    /\ s.ids.letter <= 80
    /\ Settles(s, "loop")

\* One animation frame with the inputs `in`: the frame's timestamp, the keys
\* and mouse state the event handlers left in keysRef and mouseRef, and the
\* frame's random draws.  A frame comes after every timer that was due before
\* it and before every timer due after it.
Loop(in) ==
    /\ in.timestamp > timers.lastTime
    /\ in.timestamp >= timers.wallFloor
    /\ \A k \in 1..Len(shellTimers) : in.timestamp <= shellTimers[k]
    /\ \E s \in { loop(Cur, in) } : Becomes(s)
    /\ frames' = frames + 1
    /\ UNCHANGED << settings, isPaused, canvas >>

\* the deferred callback of a shell perk: `buffsRef.current.shell = false`
ShellTimeout ==
    /\ shellTimers # << >>
    /\ LET k == CHOOSE i \in 1..Len(shellTimers) :
                    \A j \in 1..Len(shellTimers) : shellTimers[i] <= shellTimers[j]
       IN  /\ buffs' = [buffs EXCEPT !.shell = FALSE]
           /\ timers' = [timers EXCEPT !.wallFloor = Max(@, shellTimers[k])]
           /\ shellTimers' = RemoveAt(shellTimers, k)
    /\ obs' = [ step |-> "shellTimeout", paused |-> isPaused, log |-> << >> ]
    /\ UNCHANGED << settings, isPaused, canvas, player, enemies, projectiles, particles,
                    perks, letters, shockwaves, obstacles, formingEnemies, deathState,
                    score, kills, localActiveWeapon, currentSpawnRate, ids, frames, app >>

\* the parent toggles the isPaused prop (togglePause of App, the key 'p')
TogglePause ==
    /\ ~app.isLanding
    /\ isPaused' = ~isPaused
    /\ obs' = [ step |-> "togglePause", paused |-> isPaused, log |-> << >> ]
    /\ UNCHANGED << settings, canvas, player, enemies, projectiles, particles,
                    perks, letters, shockwaves, obstacles, formingEnemies, deathState,
                    score, kills, buffs, shellTimers, localActiveWeapon,
                    currentSpawnRate, timers, ids, frames, app >>

\* a handler of App that leaves the game alone: the isPaused prop and the
\* state of App after it
AppStep(step, paused, a) ==
    /\ isPaused' = paused
    /\ app' = a
    /\ obs' = [ step |-> step, paused |-> isPaused, log |-> << >> ]
    /\ UNCHANGED << settings, canvas, player, enemies, projectiles, particles,
                    perks, letters, shockwaves, obstacles, formingEnemies, deathState,
                    score, kills, buffs, shellTimers, localActiveWeapon,
                    currentSpawnRate, timers, ids, frames >>

\* the inner setTimeout of handleGameOver expires, 2500 ms after the death:
\* the game is paused and the game-over screen is shown
GameOverTimeout ==
    /\ app.gameOverDue # << >>
    /\ timers' = [timers EXCEPT !.wallFloor = Max(@, Head(app.gameOverDue))]
    /\ isPaused' = TRUE
    /\ app' = [app EXCEPT !.gameOverDue = Tail(@), !.showGameOver = TRUE]
    /\ obs' = [ step |-> "gameOverTimeout", paused |-> isPaused, log |-> << >> ]
    /\ UNCHANGED << settings, canvas, player, enemies, projectiles, particles,
                    perks, letters, shockwaves, obstacles, formingEnemies, deathState,
                    score, kills, buffs, shellTimers, localActiveWeapon,
                    currentSpawnRate, ids, frames >>

\* the game-over screen (z-index 200) and the paywall (z-index 250) cover
\* the buttons and the backdrop of App
Uncovered == ~app.showGameOver /\ ~app.showPaywall

\* Play Again of the game-over screen
handlePlayAgain ==
    /\ app.showGameOver
    /\ ~app.showPaywall
    /\ IF ~app.unlocked /\ app.sessionsPlayed >= MAX_FREE_SESSIONS
       THEN AppStep("playAgain", isPaused,
                    [app EXCEPT !.showGameOver = FALSE, !.showPaywall = TRUE])
       ELSE AppStep("playAgain", FALSE,
                    [app EXCEPT !.sessionsPlayed = @ + 1, !.showGameOver = FALSE])

\* the close button of the game-over screen
handleCloseGameOver ==
    /\ app.showGameOver
    /\ ~app.showPaywall
    /\ AppStep("closeGameOver", isPaused, [app EXCEPT !.showGameOver = FALSE])

\* the Escape key closes the settings menu
EscapeKey ==
    /\ isPaused
    /\ ~app.isLanding
    /\ ~app.showGameOver
    /\ AppStep("escape", FALSE, app)

\* a click on the backdrop of the settings menu
BackdropClick ==
    /\ isPaused
    /\ ~app.isLanding
    /\ ~app.showGameOver
    /\ Uncovered
    /\ AppStep("backdrop", FALSE, app)

\* the resume button
ResumeButton ==
    /\ isPaused
    /\ ~app.isLanding
    /\ Uncovered
    /\ AppStep("resume", FALSE, app)

\* the settings button
SettingsButton ==
    /\ ~isPaused
    /\ ~app.isLanding
    /\ Uncovered
    /\ AppStep("settings", TRUE, app)

\* onUnlock of the paywall
Unlock ==
    /\ app.showPaywall
    /\ AppStep("unlock", isPaused, [app EXCEPT !.unlocked = TRUE, !.showPaywall = FALSE])

\* the forEach of clearEnemies: one default explosion per enemy
RECURSIVE clearExplosions(_, _, _)
clearExplosions(s, in, todo) ==
    IF todo = << >> THEN s
    ELSE LET e == Head(todo)
         IN  clearExplosions(createExplosion(s, in, e.x, e.y, e.nan, 0, 0, 0, ""),
                             in, Tail(todo))

\* variant: a clearEnemies that counts the enemies it removes as kills
clearEnemiesCounted(s, in) ==
    [clearExplosions(s, in, s.enemies) EXCEPT !.enemies = << >>,
                                              !.kills = @ + Len(s.enemies)]

\* the clearEnemies method of the component's handle
clearEnemies(s, in) == [clearExplosions(s, in, s.enemies) EXCEPT !.enemies = << >>]

\* the parent calls clearEnemies() (the settings menu's button)
ClearEnemies(in) ==
    /\ \E s \in { clearEnemies(Cur, in) } : Settles(s, "clearEnemies")
    /\ UNCHANGED << settings, isPaused, canvas, frames >>

\* handleResize with a window of the size win, in a render whose
\* settings.modeStealth is `stealth`
handleResize(s, in, win, stealth) ==
    regenerate(IF s.player.x = 0 /\ s.player.y = 0
               THEN [s EXCEPT !.player.x = win.width \div 2, !.player.y = win.height \div 2]
               ELSE s,
               in, stealth)

\* the effects of a render with a new settings.modeStealth: the map is
\* regenerated and the enemies dropped, then the resize listener is
\* registered again and handleResize runs
modeEffects(s, in, stealth) ==
    handleResize([regenerate(s, in, stealth) EXCEPT !.enemies = << >>],
                 in, canvas, stealth)

\* the parent renders with settings.modeStealth toggled
SetModeStealth(in) ==
    /\ settings' = [settings EXCEPT !.modeStealth = ~@]
    /\ \E s \in { modeEffects(Cur, in, ~settings.modeStealth) } : Settles(s, "setModeStealth")
    /\ UNCHANGED << isPaused, canvas, frames >>

\* the effect of a render with a new settings.maxHealth
healthEffect(s, maxHealth) ==
    IF ~s.deathState.active
    THEN [s EXCEPT !.player.health = Min(@, maxHealth)]
    ELSE s

\* the parent renders with settings.maxHealth = maxHealth
SetMaxHealth(maxHealth) ==
    /\ maxHealth # settings.maxHealth
    /\ settings' = [settings EXCEPT !.maxHealth = maxHealth]
    /\ \E s \in { healthEffect(Cur, maxHealth) } : Settles(s, "setMaxHealth")
    /\ UNCHANGED << isPaused, canvas, frames >>

\* the window is resized to win
Resize(in, win) ==
    /\ win # canvas
    /\ canvas' = win
    /\ \E s \in { handleResize(Cur, in, win, settings.modeStealth) } : Settles(s, "resize")
    /\ UNCHANGED << settings, isPaused, frames >>

\* a variant that takes the new rate as the current interval
spawnRateEffectAdopting(s, rate) ==
    IF ~s.deathState.active
    THEN [s EXCEPT !.currentSpawnRate = rate]
    ELSE s

\* the effect of a render with a new settings.enemySpawnRate: the current
\* interval only tightens, and not while the player is dying
spawnRateEffect(s, rate) ==
    IF ~s.deathState.active
    THEN [s EXCEPT !.currentSpawnRate = Min(@, rate)]
    ELSE s

\* the parent renders with settings.enemySpawnRate = rate
SetEnemySpawnRate(rate) ==
    /\ rate # settings.enemySpawnRate
    /\ settings' = [settings EXCEPT !.enemySpawnRate = rate]
    /\ \E s \in { spawnRateEffect(Cur, rate) } : Settles(s, "setEnemySpawnRate")
    /\ UNCHANGED << isPaused, canvas, frames >>

\* the effect of a render with a new settings.activeWeapon
weaponEffect(s, weapon) == [s EXCEPT !.localActiveWeapon = weapon]

\* the parent renders with settings.activeWeapon = weapon (the menu's gun selector)
SetActiveWeapon(weapon) ==
    /\ weapon # settings.activeWeapon
    /\ settings' = [settings EXCEPT !.activeWeapon = weapon]
    /\ \E s \in { weaponEffect(Cur, weapon) } : Settles(s, "setActiveWeapon")
    /\ UNCHANGED << isPaused, canvas, frames >>

\* the parent renders with settings.modeDrainingBullets toggled: no effect
\* depends on it, the next update pass reads the new value
SetModeDrainingBullets ==
    /\ settings' = [settings EXCEPT !.modeDrainingBullets = ~@]
    /\ Settles(Cur, "setModeDrainingBullets")
    /\ UNCHANGED << isPaused, canvas, frames >>

----------------------------------------------------------------------------
(* States of a running game, and the inputs of a frame *)

\* the timestamp of the last frame in the states a specification starts from
T0 == 10 * 1000

Centre == [ x |-> 500, y |-> 500 ]

NoBuffs ==
    [ shell |-> FALSE, fireRate |-> FALSE, speed |-> FALSE, timeSlow |-> FALSE,
      explosiveAmmo |-> FALSE, fireRateUntil |-> 0, speedUntil |-> 0,
      timeSlowUntil |-> 0, explosiveAmmoUntil |-> 0 ]

\* a game that has been running for T0 ms: the last frame was at T0, the
\* spawner is `sinceSpawn` ms into its interval
RunningTimers(sinceSpawn) ==
    [ lastTime |-> T0, lastShotTime |-> T0 - 100, lastSpawnTime |-> T0 - sinceSpawn,
      lastQuoteSpawnTime |-> T0 - 100, lastAggregationTime |-> T0 - 100,
      lastStatsUpdate |-> T0 - 50, startTime |-> 0, sessionStart |-> 0,
      wallFloor |-> 0 ]

MkEnemy(id, type, x, y, hp, maxHp, radius) ==
    [ id |-> id, x |-> x, y |-> y, nan |-> FALSE, vx |-> 0, vy |-> 0,
      radius |-> radius, type |-> type, hp |-> hp, maxHp |-> maxHp ] @@ NoEnemyAI

\* the two kinds the spawner makes outside stealth mode, at full hp
Level1(x, hp) == MkEnemy(0, "level1", x, Centre.y, hp, 2, 10)

Level2(x, hp) == MkEnemy(0, "level2", x, Centre.y, hp, 15, 15)

\* an aggregate formed from 24 particles
Aggregate(x, hp) == MkEnemy(0, "aggregate", x, Centre.y, hp, 48, 32)

MkProjectile(id, type, x, y, vx, damage, radius, bounced) ==
    [ id |-> id, x |-> x, y |-> y, nan |-> FALSE, vx |-> vx, vy |-> 0,
      radius |-> radius, type |-> type, damage |-> damage, bounces |-> bounced ]

\* a sequence of enemies with the ids 1, 2, ... in array order
Numbered(row) == [ i \in 1..Len(row) |-> [row[i] EXCEPT !.id = i] ]

\* the random draws of a frame in which nothing unusual is drawn
CalmDraws ==
    [ jitter |-> 0, pspeed |-> 0, pdir |-> [ x |-> 1, y |-> 0 ],
      perkDrop |-> FALSE, perkType |-> "life",
      obstacles |-> << >>, death |-> << [ n |-> 100, vx |-> 300, vy |-> 0 ] >>,
      respawn |-> [ x |-> 300, y |-> 500 ],
      spawnDir |-> [ x |-> 1000, y |-> 0 ], level2 |-> FALSE,
      stateTimer |-> 1000, sniperDir |-> [ x |-> 0, y |-> 1 ], sniperFire |-> FALSE,
      quote |-> 6 ]

IdleMouse == [ x |-> 900, y |-> 500, down |-> FALSE, velocity |-> 0 ]

\* a lone obstacle in the top left corner of the arena
CornerBlock == [ id |-> 0, x |-> 100, y |-> 100, width |-> 80, height |-> 80 ]

\* App while a game is running: `sessions` sessions have been counted
RunningApp(sessions, unlocked) ==
    [ isLanding |-> FALSE, showGameOver |-> FALSE, showPaywall |-> FALSE,
      sessionsPlayed |-> sessions, unlocked |-> unlocked, gameOverDue |-> << >> ]

\* a game in progress at T0: the player stands in the centre; a is the state
\* of App
SessionGame(st, row, shots, pickups, shell, health, energy, wisdom, killed, a) ==
    /\ app = a
    /\ settings = st
    /\ isPaused = FALSE
    /\ canvas = [ width |-> 1000, height |-> 1000 ]
    /\ player = [ x |-> Centre.x, y |-> Centre.y, health |-> health,
                  energy |-> energy, visibility |-> 1000 ]
    /\ enemies = Numbered(row)
    /\ projectiles = shots
    /\ particles = << >>
    /\ perks = pickups
    /\ letters = << >>
    /\ shockwaves = << >>
    /\ obstacles = IF st.modeStealth THEN << CornerBlock >> ELSE << >>
    /\ formingEnemies = << >>
    /\ deathState = [ active |-> FALSE, gatherStartTime |-> 0, respawnX |-> 0, respawnY |-> 0 ]
    /\ score = wisdom
    /\ kills = killed
    /\ buffs = [NoBuffs EXCEPT !.shell = shell]
    /\ shellTimers = IF shell THEN << T0 + 100 >> ELSE << >>
    /\ localActiveWeapon = st.activeWeapon
    /\ currentSpawnRate = st.enemySpawnRate
    /\ timers = RunningTimers(950)
    /\ ids = [ enemy |-> Len(row) + 1, projectile |-> 10, particle |-> 0, perk |-> 1,
               letter |-> 0, shockwave |-> 0, obstacle |-> 1, forming |-> 0 ]
    /\ frames = 0
    /\ obs = [ step |-> "init", paused |-> FALSE, log |-> << >> ]

\* the same in the first session of a user who has not unlocked the game
GameAt(st, row, shots, pickups, shell, health, energy, wisdom, killed) ==
    SessionGame(st, row, shots, pickups, shell, health, energy, wisdom, killed,
                RunningApp(1, FALSE))

\* the same at full health with nothing scored yet
RunningGame(st, row, shots, pickups, shell) ==
    GameAt(st, row, shots, pickups, shell, st.maxHealth, 100, 0, 0)

----------------------------------------------------------------------------
(* The combat specification: a running game with enemies near the player,  *)
(* a projectile in flight or a perk under the player                        *)

\* the slider values of the scenarios: the defaults with an even enemy radius
Tuned(bounceSetting) ==
    [DEFAULT_SETTINGS EXCEPT !.enemyRadius = 10, !.projectileBounces = bounceSetting]

\* all sequences over `choices` of a length in lo..hi
Rows(choices, lo, hi) == UNION { [1..n -> choices] : n \in lo..hi }

\* a blaster shot 20 px right of the player, flying right, that has bounced
\* `bounced` times, and a sniper round likewise
Blaster(st, bounced) ==
    << MkProjectile(1, "default", 520, 500, st.projectileSpeed, 1,
                    st.projectileRadius, bounced) >>

SniperRound(st, bounced) ==
    << MkProjectile(1, "sniper", 520, 500, st.projectileSpeed * 3, 50,
                    st.projectileRadius, bounced) >>

\* a rocket (explosive ammo) 20 px right of the player, flying right
Rocket(st) ==
    << MkProjectile(1, "explosive", 520, 500, (st.projectileSpeed * 3) \div 5, 0,
                    st.projectileRadius + 4, 0) >>

Pickup(type) == << [ id |-> 0, x |-> Centre.x, y |-> Centre.y, radius |-> 10, type |-> type ] >>

\* direct hits and bounces: enemies that the shot reaches in its first frame
\* (552 and 556 after 16 ms, 670 after 100 ms)
InitHits ==
    \E row \in Rows({ Level1(552, 2), Level1(552, 1), Level2(552, 15),
                      Level1(556, 2), Level1(670, 1) }, 1, 2) :
        \/ \E n \in 0..2 : \E b \in 0..n :
                RunningGame(Tuned(n), row, Blaster(Tuned(n), b), << >>, FALSE)
        \/ \E n \in 0..1 : \E b \in 0..n :
                RunningGame(Tuned(n), row, SniperRound(Tuned(n), b), << >>, FALSE)

\* explosive hits with enemies inside and outside the splash radius
InitSplash ==
    \E row \in Rows({ Level1(550, 2), Level2(550, 15), Level1(600, 2),
                      Level1(620, 2), Level1(700, 2) }, 1, 3) :
        RunningGame(Tuned(0), row, Rocket(Tuned(0)), << >>, FALSE)

\* a perk under the player or an active shell, with enemies touching the
\* player, inside, on the edge of and outside the nuke's blast radius
InitPerks ==
    \E row \in Rows({ Level1(520, 2), Level2(520, 15), Level1(800, 2),
                      Aggregate(800, 48), Level1(902, 2), Level1(1000, 2) }, 1, 2)
                \cup { << Level1(600, 2), Level1(800, 2), Level1(1000, 2) >> } :
        \/ \E type \in {"nuke", "shell"} :
                RunningGame(Tuned(0), row, << >>, Pickup(type), FALSE)
        \/ \E shell \in BOOLEAN :
                RunningGame(Tuned(0), row, << >>, << >>, shell)

Init == InitHits \/ InitSplash \/ InitPerks

\* the frames of the combat specification: 16 ms or 100 ms after the last
\* one; the player stands still, and either nothing is drawn and the mouse
\* is up, or every kill drops a nuke perk and the mouse button is down
CombatInputs ==
    { [ timestamp |-> timers.lastTime + step, keys |-> {},
        mouse |-> [IdleMouse EXCEPT !.down = busy],
        rnd |-> [CalmDraws EXCEPT !.perkDrop = busy, !.perkType = "nuke"] ] :
      step \in {16, 100}, busy \in BOOLEAN }

Frame ==
    /\ frames < MaxFrames
    /\ \E in \in CombatInputs : Loop(in)

Next == Frame \/ ShellTimeout \/ TogglePause

Spec == Init /\ [][Next]_vars

----------------------------------------------------------------------------
(* The death specification: games in which the player is about to die, by  *)
(* a sniper's shot in stealth mode, by an enemy's touch, or by running out *)
(* of energy in drain mode; then the death state and the respawn           *)

Stealth == [Tuned(0) EXCEPT !.modeStealth = TRUE]

Drain == [Tuned(0) EXCEPT !.modeDrainingBullets = TRUE]

\* an idle stealth sniper
Sniper(x, y) ==
    [MkEnemy(0, "stealth_sniper", x, y, 1, 1, 10) EXCEPT !.state = "idle", !.stateTimer = 1000]

InitDeath ==
    \/ \E health \in {20, 40} : \E row \in Rows({ Sniper(500, 300), Sniper(700, 500) }, 1, 2) :
            GameAt(Stealth, row, << >>, << >>, FALSE, health, 100, 7, 3)
    \/ \E health \in {10, 20} :
            GameAt(Tuned(0), << Level1(520, 2) >>, << >>, << >>, FALSE, health, 100, 7, 3)
    \/ \E energy \in {2, 4} :
            GameAt(Drain, << Level1(900, 2) >>, << >>, << >>, FALSE, 100, energy, 7, 3)

\* the time between two frames: 200 ms, or a long 4800 ms while the death
\* particles still scatter
DeathSteps ==
    {200} \cup (IF deathState.active /\ timers.lastTime + 4800 < deathState.gatherStartTime
                     THEN {4800} ELSE {})

\* the frames of the death specification: either the mouse rests, or it moves
\* with the button down and every sniper that may fire does
DeathInputs ==
    { [ timestamp |-> timers.lastTime + step, keys |-> {},
        mouse |-> [IdleMouse EXCEPT !.down = hot, !.velocity = IF hot THEN 5 ELSE 0],
        rnd |-> [CalmDraws EXCEPT !.sniperFire = hot, !.obstacles = << CornerBlock >>] ] :
      step \in DeathSteps, hot \in BOOLEAN }

FrameDeath ==
    /\ frames < MaxFramesDeath
    /\ \E in \in DeathInputs : Loop(in)

NextDeath == FrameDeath \/ TogglePause

SpecDeath == InitDeath /\ [][NextDeath]_vars

----------------------------------------------------------------------------
(* The host specification: a running game on whose arena particles have    *)
(* come to rest, with the commands of the parent component: clearEnemies,  *)
(* new settings, a resized window, pause                                   *)

\* n particles of one explosion that have come to rest at (x, y)
Dust(id, n, x, y) ==
    [ id |-> id, n |-> n, x |-> x, y |-> y, nan |-> FALSE, vx |-> 0, vy |-> 0,
      life |-> 20000, type |-> "default", formingTargetId |-> -1 ]

\* 12 particles in the cell (4, 4); 9 there; 12 there and 4 in the cell (7, 7)
Ripe == << Dust(0, 6, 420, 430), Dust(6, 6, 460, 470) >>

Thin == << Dust(0, 9, 420, 430) >>

Split == << Dust(0, 12, 420, 430), Dust(12, 4, 720, 730) >>

\* a game in progress at T0 with the particles `dust` on the ground; the
\* aggregation scan is due in the next frame when scanDue
HostGame(st, row, dust, pickups, health, scanDue) ==
    /\ app = RunningApp(1, FALSE)
    /\ settings = st
    /\ isPaused = FALSE
    /\ canvas = [ width |-> 1000, height |-> 1000 ]
    /\ player = [ x |-> Centre.x, y |-> Centre.y, health |-> health,
                  energy |-> 100, visibility |-> 1000 ]
    /\ enemies = Numbered(row)
    /\ projectiles = << >>
    /\ particles = dust
    /\ perks = pickups
    /\ letters = << >>
    /\ shockwaves = << >>
    /\ obstacles = << >>
    /\ formingEnemies = << >>
    /\ deathState = [ active |-> FALSE, gatherStartTime |-> 0, respawnX |-> 0, respawnY |-> 0 ]
    /\ score = 7
    /\ kills = 3
    /\ buffs = NoBuffs
    /\ shellTimers = << >>
    /\ localActiveWeapon = st.activeWeapon
    /\ currentSpawnRate = st.enemySpawnRate
    /\ timers = [RunningTimers(950) EXCEPT
                    !.lastAggregationTime = IF scanDue THEN T0 - 30000 ELSE T0 - 100]
    /\ ids = [ enemy |-> Len(row) + 1, projectile |-> 10, particle |-> 100, perk |-> 1,
               letter |-> 0, shockwave |-> 0, obstacle |-> 1, forming |-> 0 ]
    /\ frames = 0
    /\ obs = [ step |-> "init", paused |-> FALSE, log |-> << >> ]

InitHost ==
    \E dust \in { Ripe, Thin, Split } : \E row \in { << Level1(520, 2) >> } :
        \/ \E health \in {10, 100} :
                HostGame(Tuned(0), row, dust, << >>, health, TRUE)
        \/ \E health \in {95, 100} :
                HostGame(Tuned(0), row, dust, Pickup("life"), health, FALSE)

\* the frames of the host specification: 100 ms or 2000 ms after the last
\* one, the player stands still and nothing unusual is drawn
HostInputs ==
    { [ timestamp |-> timers.lastTime + step, keys |-> {}, mouse |-> IdleMouse,
        rnd |-> [CalmDraws EXCEPT !.obstacles = << CornerBlock >>] ] :
      step \in {100, 2000} }

\* the draws of a command of the parent
HostDraws == [ rnd |-> [CalmDraws EXCEPT !.obstacles = << CornerBlock >>] ]

\* the window sizes and the max health values the parent chooses from
Windows == { [ width |-> 1000, height |-> 1000 ], [ width |-> 800, height |-> 600 ] }

HealthChoices == {15, 100}

FrameHost ==
    /\ frames < MaxFramesHost
    /\ \E in \in HostInputs : Loop(in)

\* the parent gives at most one command between two frames
Settled == obs.step \in {"init", "loop"}

ClearHost == Settled /\ ClearEnemies(HostDraws)

ModeHost == Settled /\ SetModeStealth(HostDraws)

HealthHost == Settled /\ \E maxHealth \in HealthChoices : SetMaxHealth(maxHealth)

ResizeHost == Settled /\ \E win \in Windows : Resize(HostDraws, win)

NextHost ==
    \/ FrameHost
    \/ ClearHost
    \/ ModeHost
    \/ HealthHost
    \/ ResizeHost
    \/ TogglePause

SpecHost == InitHost /\ [][NextHost]_vars

----------------------------------------------------------------------------
(* The arsenal specification: a running game in which the spawner is about *)
(* to fire, the player shoots with each weapon and buff, or a perk lies    *)
(* under the player; the parent changes the gun, the spawn rate or the     *)
(* drain mode between frames                                                *)

\* a game in progress at T0 with the player at (px, 500)
ArmsGame(st, px, row, pickups, bf, shellDue, energy, tm) ==
    /\ app = RunningApp(1, FALSE)
    /\ settings = st
    /\ isPaused = FALSE
    /\ canvas = [ width |-> 1000, height |-> 1000 ]
    /\ player = [ x |-> px, y |-> Centre.y, health |-> st.maxHealth,
                  energy |-> energy, visibility |-> 1000 ]
    /\ enemies = Numbered(row)
    /\ projectiles = << >>
    /\ particles = << >>
    /\ perks = pickups
    /\ letters = << >>
    /\ shockwaves = << >>
    /\ obstacles = IF st.modeStealth THEN << CornerBlock >> ELSE << >>
    /\ formingEnemies = << >>
    /\ deathState = [ active |-> FALSE, gatherStartTime |-> 0, respawnX |-> 0, respawnY |-> 0 ]
    /\ score = 0
    /\ kills = 0
    /\ buffs = bf
    /\ shellTimers = shellDue
    /\ localActiveWeapon = st.activeWeapon
    /\ currentSpawnRate = st.enemySpawnRate
    /\ timers = tm
    /\ ids = [ enemy |-> Len(row) + 1, projectile |-> 10, particle |-> 0, perk |-> 1,
               letter |-> 0, shockwave |-> 0, obstacle |-> 1, forming |-> 0 ]
    /\ frames = 0
    /\ obs = [ step |-> "init", paused |-> FALSE, log |-> << >> ]

\* the buffs with the time-slow, fire-rate and explosive-ammo perks running
\* (picked up a moment before T0) or not
Buffed(slow, fire, explosive) ==
    [NoBuffs EXCEPT !.timeSlow = slow, !.timeSlowUntil = IF slow THEN T0 + 4000 ELSE 0,
                    !.fireRate = fire, !.fireRateUntil = IF fire THEN T0 + 4000 ELSE 0,
                    !.explosiveAmmo = explosive,
                    !.explosiveAmmoUntil = IF explosive THEN T0 + 4000 ELSE 0]

\* the spawner 950 ms into its interval, 59.9 s after the difficulty timer
\* was reset; the last shot `sinceShot` ms ago (the origin of the time axis
\* is arbitrary: only differences of times are read)
ArmsTimers(sinceShot) ==
    [RunningTimers(950) EXCEPT !.lastShotTime = T0 - sinceShot,
                               !.startTime = T0 - 59900, !.sessionStart = T0 - 59900]

\* the spawner at work: the default interval or one next to the floor, with
\* and without time-slow and stealth mode, the player in the centre or left
\* of it, an enemy chasing from the right
InitSpawner ==
    \E rate \in {1000, 60} : \E slow \in BOOLEAN : \E stealth \in BOOLEAN : \E px \in {500, 200} :
        ArmsGame([Tuned(0) EXCEPT !.enemySpawnRate = rate, !.modeStealth = stealth],
                 px, IF stealth THEN << >> ELSE << Level1(800, 2), Aggregate(900, 48) >>,
                 << >>, Buffed(slow, FALSE, FALSE), << >>, 100, ArmsTimers(100))

\* every gun of the menu, with and without the fire-rate and explosive-ammo
\* buffs, the last shot 100 ms or 1600 ms ago
InitGuns ==
    \E weapon \in {"blaster", "shotgun", "machinegun", "nuke", "sniper"} :
    \E fire \in BOOLEAN : \E explosive \in BOOLEAN : \E sinceShot \in {100, 1600} :
        ArmsGame([Tuned(0) EXCEPT !.activeWeapon = weapon], 500, << Level1(800, 2) >>,
                 << >>, Buffed(FALSE, fire, explosive), << >>, 100, ArmsTimers(sinceShot))

\* drain mode with the energy nearly spent, half spent and nearly full
InitDrain ==
    \E energy \in {2, 4, 50, 99} :
        ArmsGame(Drain, 500, << Level1(800, 2) >>, << >>, NoBuffs, << >>, energy,
                 ArmsTimers(100))

\* a perk under the player; a shell perk lies there while an earlier shell is
\* still active (its timer is due 100 ms after T0)
InitPickups ==
    \/ \E type \in {"weapon_shotgun", "weapon_machinegun", "time", "fire", "speed",
                    "gun_explosive", "life"} :
            ArmsGame(Tuned(0), 500, << Level1(800, 2) >>, Pickup(type), NoBuffs, << >>,
                     100, ArmsTimers(100))
    \/ ArmsGame(Tuned(0), 500, << Level1(800, 2) >>, Pickup("shell"),
                [NoBuffs EXCEPT !.shell = TRUE], << T0 + 100 >>, 100, ArmsTimers(100))

InitArms == InitSpawner \/ InitGuns \/ InitDrain \/ InitPickups

\* what the player does during a frame and how long the frame is: rest, fire
\* at a far target, fire with the pointer on the player itself, run right
ArmsMoves ==
    { [ step |-> 60, keys |-> {}, down |-> FALSE, blank |-> FALSE ],
      [ step |-> 60, keys |-> {}, down |-> TRUE, blank |-> FALSE ],
      [ step |-> 500, keys |-> {}, down |-> TRUE, blank |-> FALSE ],
      [ step |-> 60, keys |-> {}, down |-> TRUE, blank |-> TRUE ],
      [ step |-> 500, keys |-> {"d"}, down |-> FALSE, blank |-> FALSE ] }

\* the frames of the arsenal specification; a frame with the button down
\* draws a level2 roll, a frame on the run a diagonal spawn angle
ArmsInputs ==
    { [ timestamp |-> timers.lastTime + m.step, keys |-> m.keys,
        mouse |-> [ x |-> IF m.blank THEN player.x ELSE 900,
                    y |-> IF m.blank THEN player.y ELSE 500,
                    down |-> m.down, velocity |-> 0 ],
        rnd |-> [CalmDraws EXCEPT !.level2 = m.down,
                                  !.obstacles = << CornerBlock >>,
                                  !.spawnDir = IF m.keys = {} THEN [ x |-> 1000, y |-> 0 ]
                                               ELSE [ x |-> 707, y |-> 707 ]] ] :
      m \in ArmsMoves }

\* the guns and the spawn intervals the parent chooses between
WeaponChoices == {"blaster", "shotgun"}

RateChoices == {50, 1000}

FrameArms ==
    /\ frames < MaxFramesArms
    /\ \E in \in ArmsInputs : Loop(in)

\* the parent's commands come between two frames, one at a time
Between == obs.step \in {"init", "loop"} /\ frames < MaxFramesArms

WeaponArms == Between /\ \E weapon \in WeaponChoices : SetActiveWeapon(weapon)

RateArms == Between /\ \E rate \in RateChoices : SetEnemySpawnRate(rate)

DrainArms == Between /\ SetModeDrainingBullets

NextArms ==
    \/ FrameArms
    \/ WeaponArms
    \/ RateArms
    \/ DrainArms
    \/ ShellTimeout

SpecArms == InitArms /\ [][NextArms]_vars

----------------------------------------------------------------------------
(* The override specification: a drain-mode game whose player has 4 energy  *)
(* left and stands on a perk; the shots spend the energy, the player dies   *)
(* and respawns, and the menu's gun selector may be set to the shotgun      *)

\* the perk kinds under the player
OverridePerks ==
    {"weapon_machinegun", "weapon_shotgun", "weapon_blaster",
     "time", "fire", "speed", "life", "gun_explosive", "shell"}

InitOverride ==
    \E type \in OverridePerks :
        GameAt(Drain, << Level1(900, 2) >>, << >>, Pickup(type), FALSE, 95, 4, 7, 3)

\* the gun selector of the menu is set to the shotgun between two frames
WeaponOverride == Settled /\ SetActiveWeapon("shotgun")

NextOverride == FrameDeath \/ WeaponOverride \/ ShellTimeout

SpecOverride == InitOverride /\ [][NextOverride]_vars

----------------------------------------------------------------------------
(* The touch specification: enemies on both sides of the player, touching  *)
(* it or out of reach, with and without the shell, at full health or with  *)
(* 10 health left                                                           *)

InitTouch ==
    \E row \in Rows({ Level1(520, 2), Level1(484, 2), Level2(520, 15),
                      Aggregate(560, 48), Level1(800, 2) }, 1, 2) :
        \E shell \in BOOLEAN : \E health \in {10, 100} :
            GameAt(Tuned(0), row, << >>, << >>, shell, health, 100, 7, 3)

NextTouch == Frame \/ ShellTimeout

SpecTouch == InitTouch /\ [][NextTouch]_vars

----------------------------------------------------------------------------
(* The tuning specification: a game whose player is touched by an enemy at *)
(* 10 or 100 health, or shoots with 2 energy left in drain mode, while the *)
(* menu changes the spawn rate and the max health between the frames, with *)
(* the player alive or dying, and the game may be paused                    *)

InitTuning ==
    \/ \E health \in {10, 100} :
            GameAt(Tuned(0), << Level1(520, 2) >>, << >>, << >>, FALSE, health, 100, 7, 3)
    \/ GameAt(Drain, << Level1(900, 2) >>, << >>, << >>, FALSE, 100, 2, 7, 3)

RateTuning == Settled /\ \E rate \in RateChoices : SetEnemySpawnRate(rate)

PauseTuning == Settled /\ TogglePause

NextTuning == FrameDeath \/ PauseTuning \/ RateTuning \/ HealthHost

SpecTuning == InitTuning /\ [][NextTuning]_vars

----------------------------------------------------------------------------
(* The gather specification: the player dies in the first frame, touched   *)
(* at 10 health or out of energy in drain mode; the death particles fly in *)
(* two directions, and the frames of the gather phase come 200 ms or       *)
(* 400 ms apart                                                             *)

InitGather ==
    \/ GameAt(Tuned(0), << Level1(520, 2) >>, << >>, << >>, FALSE, 10, 100, 7, 3)
    \/ GameAt(Drain, << Level1(900, 2) >>, << >>, << >>, FALSE, 100, 2, 7, 3)

\* 60 death particles fly right and 40 fly up
TwoBursts == << [ n |-> 60, vx |-> 300, vy |-> 0 ], [ n |-> 40, vx |-> 0, vy |-> -200 ] >>

GatherInputs ==
    { [ timestamp |-> timers.lastTime + step, keys |-> {},
        mouse |-> [IdleMouse EXCEPT !.down = hot, !.velocity = IF hot THEN 5 ELSE 0],
        rnd |-> [CalmDraws EXCEPT !.death = TwoBursts] ] :
      step \in DeathSteps \cup {400}, hot \in BOOLEAN }

FrameGather ==
    /\ frames < MaxFramesDeath
    /\ \E in \in GatherInputs : Loop(in)

NextGather == FrameGather \/ PauseTuning

SpecGather == InitGather /\ [][NextGather]_vars

----------------------------------------------------------------------------
(* The stealth specification: a stealth game whose player, at 20 health,   *)
(* is shot by a sniper, dies and respawns at one of two points, and walks  *)
(* left; the obstacles drawn at the death are the corner block and a wall  *)
(* at the left edge of the arena                                            *)

InitStealth ==
    \E row \in { << Sniper(500, 300) >>, << Sniper(700, 500) >> } :
        GameAt(Stealth, row, << >>, << >>, FALSE, 20, 100, 7, 3)

\* a wall at the left edge of the arena, more than 300 px from where the
\* player dies
WallBlock == [ id |-> 0, x |-> 60, y |-> 430, width |-> 100, height |-> 140 ]

\* a respawn point right of the wall and one on it
RespawnPoints == { [ x |-> 300, y |-> 500 ], [ x |-> 150, y |-> 500 ] }

StealthInputs ==
    { [ timestamp |-> timers.lastTime + step, keys |-> keys,
        mouse |-> IdleMouse,
        rnd |-> [CalmDraws EXCEPT !.sniperFire = TRUE, !.respawn = point,
                                  !.obstacles = << CornerBlock, WallBlock >>] ] :
      step \in DeathSteps, keys \in { {}, {"a", "shift"} }, point \in RespawnPoints }

FrameStealth ==
    /\ frames < MaxFramesDeath
    /\ \E in \in StealthInputs : Loop(in)

NextStealth == FrameStealth \/ PauseTuning

SpecStealth == InitStealth /\ [][NextStealth]_vars

----------------------------------------------------------------------------
(* The session specification: a session under way, the 29th or the 30th    *)
(* counted, of a user who has or has not unlocked the game; the player     *)
(* stands at 10 health in the touch of an enemy. With the frames, the      *)
(* handlers of App: the game-over screen, the paywall, the pause controls  *)

MaxFramesApp == 3

InitApp ==
    \E sessions \in {MAX_FREE_SESSIONS - 1, MAX_FREE_SESSIONS} : \E unlocked \in BOOLEAN :
        SessionGame(Tuned(0), << Level1(520, 2) >>, << >>, << >>, FALSE, 10, 100, 7, 3,
                    RunningApp(sessions, unlocked))

\* a frame arrives before the pending timeout of handleGameOver, or after it
\* has run
FrameApp ==
    /\ frames < MaxFramesApp
    /\ \E in \in DeathInputs :
        /\ \A k \in 1..Len(app.gameOverDue) : in.timestamp < app.gameOverDue[k]
        /\ Loop(in)

NextApp ==
    \/ FrameApp
    \/ GameOverTimeout
    \/ TogglePause
    \/ handlePlayAgain
    \/ handleCloseGameOver
    \/ EscapeKey
    \/ BackdropClick
    \/ ResumeButton
    \/ SettingsButton
    \/ Unlock

SpecApp == InitApp /\ [][NextApp]_vars

----------------------------------------------------------------------------
(* Observations used by the properties *)

\* the events of one kind logged by the step just taken, and by the step that
\* led to the current state
Logged(kind) == SelectSeq(obs'.log, LAMBDA e : e.ev = kind)

Seen(kind) == SelectSeq(obs.log, LAMBDA e : e.ev = kind)

\* a frame whose update pass ran the normal loop and triggered no death
LiveTick ==
    /\ obs'.step = "loop" /\ ~obs'.paused
    /\ ~deathState.active
    /\ Logged("gameOver") = << >>

\* the indices of the enemies of `pool` that are not in the pool after the step
GoneFrom(pool) == { i \in 1..Len(pool) : pool[i].id \notin IdsOf(enemies') }

\* the point values of the enemies of `pool` at the indices idx, added up
RECURSIVE PointsOf(_, _)
PointsOf(pool, idx) ==
    IF idx = {} THEN 0
    ELSE LET i == CHOOSE j \in idx : TRUE
         IN  getEnemyKillScore(pool[i]) + PointsOf(pool, idx \ {i})

\* the explosions in the colours of an enemy's death
KillBursts ==
    SelectSeq(obs'.log, LAMBDA e : e.ev = "explosion" /\ e.color \in {"#ef4444", "#ffffff"})

\* the enemy e is in the pool after the step, with hp points
StillThere(e, hp) ==
    \E j \in 1..Len(enemies') : enemies'[j].id = e.id /\ enemies'[j].hp = hp

\* a frame with a single projectile contact and nothing else that removes enemies
LoneContact ==
    /\ LiveTick /\ ~buffs.shell
    /\ Logged("pickup") = << >>
    /\ Len(Logged("contact")) = 1

----------------------------------------------------------------------------
(* Properties *)

\* C1: in every frame that does not trigger death, each enemy that leaves the
\* pool raises kills by exactly 1 and score by exactly its point value, and
\* has exactly one death explosion: kills rises by the number of enemies gone,
\* score by the sum of their point values, and there are as many death
\* explosions as enemies gone.
C1_KillAccounting ==
    [][ (LiveTick /\ letters = << >> /\ letters' = << >>) =>
            /\ kills' = kills + Cardinality(GoneFrom(enemies))
            /\ score' = score + PointsOf(enemies, GoneFrom(enemies))
            /\ Len(KillBursts) = Cardinality(GoneFrom(enemies)) ]_vars

\* C2: in every frame that does not trigger death, the number of enemies that
\* leave the pool equals the increase of kills in that frame.
C2_OnlyKillsRemove ==
    [][ LiveTick => Cardinality(GoneFrom(enemies)) = kills' - kills ]_vars

\* C3: after every step every enemy in the pool has 0 < hp <= maxHp.
C3_HpInRange ==
    \A i \in 1..Len(enemies) : enemies[i].hp > 0 /\ enemies[i].hp <= enemies[i].maxHp

\* C3 witness: a projectile hit a level 2 enemy, which is still in the pool
\* with less than its full hp
C3_Witness ==
    \E k \in 1..Len(Seen("contact")) :
        LET c == Seen("contact")[k]
        IN  \E i \in 1..Len(enemies) :
                /\ enemies[i].id = c.before[c.index].id
                /\ enemies[i].maxHp = 15
                /\ enemies[i].hp < 15

\* C4: a frame logs exactly one gameOver event when the player goes from alive
\* to dying in it and none otherwise, and the event carries at least the score
\* and kills the frame started with (they are never the reset values).
C4_OneGameOver ==
    [][ obs'.step = "loop" =>
            /\ Len(Logged("gameOver")) =
                   (IF ~deathState.active /\ deathState'.active THEN 1 ELSE 0)
            /\ \A k \in 1..Len(Logged("gameOver")) :
                   /\ Logged("gameOver")[k].wisdom >= score
                   /\ Logged("gameOver")[k].kills >= kills ]_vars

\* C5: in the step in which the death state ends, the player has the
\* configured max health, 100 energy, score 0, stands on the respawn point,
\* and no particle of type 'death' is left.
C5_Respawn ==
    [][ (deathState.active /\ ~deathState'.active) =>
            /\ player'.health = settings.maxHealth
            /\ player'.energy = 100
            /\ score' = 0
            /\ player'.x = deathState.respawnX /\ player'.y = deathState.respawnY
            /\ \A i \in 1..Len(particles') : particles'[i].type # "death" ]_vars

\* C5 witness: the player has just respawned, away from where they died
C5_Witness ==
    /\ Seen("respawn") # << >>
    /\ ~deathState.active
    /\ player.x # Centre.x
    /\ player.health = settings.maxHealth

\* C6: a frame delivered while isPaused is true changes no pool and neither
\* the player's position nor the player's health.
C6_PausedFrame ==
    [][ (isPaused /\ obs'.step = "loop") =>
            /\ UNCHANGED << enemies, projectiles, particles, perks, letters,
                            shockwaves, formingEnemies >>
            /\ player'.x = player.x /\ player'.y = player.y
            /\ player'.health = player.health ]_vars

\* C6 witness: a paused frame has run with enemies, a projectile and particles in the pools
C6_Witness ==
    /\ obs.step = "loop" /\ obs.paused
    /\ enemies # << >> /\ projectiles # << >> /\ particles # << >>

\* C7: in a frame whose only contact is an explosive projectile's, the
\* projectile is consumed, every enemy within 80 of the impact point loses 10
\* hp (and is removed at hp <= 0), and every enemy outside is still in the
\* pool with its hp.
C7_Splash ==
    [][ (LoneContact /\ Logged("contact")[1].proj.type = "explosive") =>
            LET c == Logged("contact")[1]
            IN  /\ c.proj.id \notin IdsOf(projectiles')
                /\ \A i \in 1..Len(c.before) :
                       IF (~c.before[i].nan) /\ WithinEq(c.before[i].x, c.before[i].y,
                                                         c.proj.x, c.proj.y, 80)
                       THEN IF HpOr1(c.before[i].hp) - 10 <= 0
                            THEN c.before[i].id \notin IdsOf(enemies')
                            ELSE StillThere(c.before[i], HpOr1(c.before[i].hp) - 10)
                       ELSE StillThere(c.before[i], c.before[i].hp) ]_vars

\* C8: at every contact of a non-explosive projectile that has bounced b
\* times, with the configured max bounces N: when N > 0 and b < N the
\* projectile stays in the pool with b + 1 bounces, otherwise it is removed.
C8_BounceBudget ==
    [][ LiveTick =>
            \A k \in 1..Len(Logged("contact")) :
                LET c == Logged("contact")[k]
                IN  c.proj.type # "explosive" =>
                        IF settings.projectileBounces > 0
                           /\ c.proj.bounces < settings.projectileBounces
                        THEN \E m \in 1..Len(projectiles') :
                                /\ projectiles'[m].id = c.proj.id
                                /\ projectiles'[m].bounces = c.proj.bounces + 1
                        ELSE c.proj.id \notin IdsOf(projectiles') ]_vars

\* C8 witness: with max bounces 2, a projectile that had bounced twice made its
\* third contact and is gone, in a state reached from one where it had made its first
C8_Witness ==
    /\ settings.projectileBounces = 2
    /\ \E k \in 1..Len(Seen("contact")) :
            /\ Seen("contact")[k].proj.bounces = 2
            /\ Seen("contact")[k].proj.id \notin IdsOf(projectiles)

\* C9: in a frame whose only contact is a non-explosive projectile's, the
\* enemy touched is the overlapping one found first (the last in the pool),
\* it alone loses the projectile's damage, and when that takes its hp to 0 or
\* less it is removed, score rises by its point value and kills by 1; the
\* player's health changes only if an enemy touches the player.
C9_OneEnemyDamaged ==
    [][ (LoneContact /\ Logged("contact")[1].proj.type # "explosive") =>
            LET c == Logged("contact")[1]
                e == c.before[c.index]
                left == HpOr1(e.hp) - (IF c.proj.damage = 0 THEN 1 ELSE c.proj.damage)
            IN  /\ \A i \in 1..Len(c.before) :
                       Overlaps(c.proj, c.before[i], c.before[i].radius + c.proj.radius)
                           => i <= c.index
                /\ \A i \in 1..Len(c.before) :
                       i # c.index => StillThere(c.before[i], c.before[i].hp)
                /\ IF left <= 0
                   THEN /\ e.id \notin IdsOf(enemies')
                        /\ score' = score + getEnemyKillScore(e)
                        /\ kills' = kills + 1
                   ELSE /\ StillThere(e, left)
                        /\ score' = score /\ kills' = kills
                /\ (Logged("playerHit") = << >> => player'.health = player.health) ]_vars

\* C9 witness: a projectile that overlapped two enemies killed one and left the other unharmed
C9_Witness ==
    /\ Len(Seen("contact")) = 1
    /\ LET c == Seen("contact")[1]
       IN  /\ c.proj.type # "explosive"
           /\ Cardinality({ i \in 1..Len(c.before) :
                  Overlaps(c.proj, c.before[i], c.before[i].radius + c.proj.radius) }) = 2
           /\ c.before[c.index].id \notin IdsOf(enemies)
           /\ kills = 1 /\ score = 1
           /\ player.health = settings.maxHealth
           /\ \E j \in 1..Len(enemies) : enemies[j].hp = enemies[j].maxHp

\* C10: in a frame in which a nuke perk is the only perk picked up, the pool
\* afterwards is the pool at the pickup without the enemies closer than
\* nukeBlastRadius to the player, kills and score rise by their number and
\* point values, and one shockwave is added, with maxRadius = nukeBlastRadius.
C10_Nuke ==
    [][ (LiveTick /\ Len(Logged("pickup")) = 1 /\ Logged("pickup")[1].type = "nuke") =>
            LET p == Logged("pickup")[1]
                hit == { i \in 1..Len(p.before) :
                           /\ ~p.before[i].nan
                           /\ Dist2(player'.x, player'.y, p.before[i].x, p.before[i].y)
                                < settings.nukeBlastRadius * settings.nukeBlastRadius }
            IN  /\ enemies' = SelectSeq(p.before, LAMBDA e :
                                ~ \E i \in hit : p.before[i].id = e.id)
                /\ kills' = p.kills + Cardinality(hit)
                /\ score' = p.score + PointsOf(p.before, hit)
                /\ Len(shockwaves') = Len(p.shockwaves) + 1
                /\ shockwaves'[Len(shockwaves')].maxRadius = settings.nukeBlastRadius ]_vars

\* C10 witness: the nuke went off with enemies 98, 298 and 498 from the
\* player: two removed and scored, the third left
C10_Witness ==
    /\ Len(Seen("pickup")) = 1
    /\ Seen("pickup")[1].type = "nuke"
    /\ Len(Seen("pickup")[1].before) = 3
    /\ Len(enemies) = 1 /\ enemies[1].hp = 2
    /\ kills = 2 /\ score = 2
    /\ Len(shockwaves) = 1 /\ shockwaves[1].maxRadius = 400

\* the particles killEnemy bursts for the enemy e
killBurst(e) ==
    e.radius * (IF settings.modeStealth THEN 5 ELSE settings.enemyDeathParticleMultiplier) * 5

\* C11: in a frame in which a nuke perk is picked up and no projectile lands,
\* every enemy the nuke destroys gets what killEnemy gives a direct kill: a
\* death burst of radius * multiplier * 5 particles at its position and an
\* explosion sound (one sound per enemy destroyed).
C11_NukeBookkeeping ==
    [][ (LiveTick /\ ~buffs.shell /\ Logged("contact") = << >>
         /\ Len(Logged("pickup")) = 1 /\ Logged("pickup")[1].type = "nuke") =>
            LET p == Logged("pickup")[1]
                hit == { i \in 1..Len(p.before) : p.before[i].id \notin IdsOf(enemies') }
            IN  /\ \A i \in hit :
                       \E k \in 1..Len(obs'.log) :
                           /\ obs'.log[k].ev = "explosion"
                           /\ obs'.log[k].x = p.before[i].x
                           /\ obs'.log[k].y = p.before[i].y
                           /\ obs'.log[k].count = killBurst(p.before[i])
                /\ Len(Logged("explosionSound")) = Cardinality(hit) ]_vars

\* C12: a call of clearEnemies, in any state, leaves the enemy pool empty,
\* leaves score, kills, the player's health and the death state as they
\* were, and sends no game-over notification.
C12_ClearEnemies ==
    [][ obs'.step = "clearEnemies" =>
            /\ enemies' = << >>
            /\ score' = score /\ kills' = kills
            /\ player'.health = player.health
            /\ deathState' = deathState
            /\ Logged("gameOver") = << >> ]_vars

\* C12 witness: clearEnemies has just removed an enemy (its explosion is
\* logged) while the game was paused and the player dying
C12_Witness ==
    /\ obs.step = "clearEnemies" /\ obs.paused
    /\ deathState.active
    /\ Seen("explosion") # << >>
    /\ enemies = << >>

\* C13: while the player is alive, no step other than a call of clearEnemies
\* (a frame, a settings change, a resize, a pause toggle) takes enemies out of
\* the pool without counting them as kills.  Frames in which a rocket lands
\* are the subject of C2 and are left out here.
C13_OnlyClearEnemiesBypasses ==
    [][ (/\ ~deathState.active /\ ~deathState'.active
         /\ obs'.step # "clearEnemies"
         /\ Logged("gameOver") = << >>
         /\ \A k \in 1..Len(Logged("contact")) :
                Logged("contact")[k].proj.type # "explosive") =>
            Cardinality(GoneFrom(enemies)) = kills' - kills ]_vars

\* an update pass runs in this step
UpdateTick == obs'.step = "loop" /\ ~obs'.paused

\* the particles a scan bins: not of type 'death', unclaimed, near-stationary
Resting == { i \in 1..Len(particles) :
                /\ particles[i].type # "death"
                /\ particles[i].formingTargetId = -1
                /\ Abs(particles[i].vx) + Abs(particles[i].vy) <= 20
                /\ ~particles[i].nan }

\* the resting particles in the 100-unit cell of particle i, and how many they are
CellMates(i) ==
    { j \in Resting : /\ particles[j].x \div 100 = particles[i].x \div 100
                      /\ particles[j].y \div 100 = particles[i].y \div 100 }

Crowd(i) == weightOf(Cur, CellMates(i))

C15_FormingWindow ==
    [][ UpdateTick =>
          /\ \A f \in 1..Len(formingEnemies') :
                timers'.lastTime - formingEnemies'[f].startTime < 2000
          /\ Len(Logged("aggregate")) =
                Cardinality({ f \in 1..Len(formingEnemies) :
                                formingEnemies[f].id \notin IdsOf(formingEnemies') }) ]_vars

\* C15 witness: the update pass of the third frame has replaced a forming
\* enemy by an aggregate enemy, and the player is alive
C15_Witness ==
    /\ obs.step = "loop" /\ ~obs.paused
    /\ frames = 3
    /\ Len(Seen("aggregate")) = 1
    /\ formingEnemies = << >>
    /\ \E m \in 1..Len(enemies) : enemies[m].type = "aggregate"
    /\ ~deathState.active

\* C16: in every state the player's health is at least 0 and at most the
\* configured max health.
C16_HealthInRange ==
    player.health >= 0 /\ player.health <= settings.maxHealth

\* C17: at the end of every update pass, a player whose health is 0 or less
\* is in the death state.
C17_DeathAtZero ==
    [][ UpdateTick => (player'.health <= 0 => deathState'.active) ]_vars

\* C17 witness: an enemy's touch took the player's health to exactly 0 and
\* the update pass ended in the death state
C17_Witness ==
    /\ obs.step = "loop" /\ ~obs.paused
    /\ Seen("playerHit") # << >>
    /\ player.health = 0
    /\ deathState.active

\* C18: the frame in which the player goes from alive to dying ends with the
\* enemy, projectile, perk and letter pools empty, the spawn interval back at
\* the configured enemySpawnRate, the difficulty timer at the frame's
\* timestamp and the gather deadline 5000 ms after it.
C18_EnteringDying ==
    [][ (obs'.step = "loop" /\ ~deathState.active /\ deathState'.active) =>
            /\ enemies' = << >> /\ projectiles' = << >>
            /\ perks' = << >> /\ letters' = << >>
            /\ currentSpawnRate' = settings.enemySpawnRate
            /\ timers'.startTime = timers'.lastTime
            /\ deathState'.gatherStartTime = timers'.lastTime + 5000 ]_vars

\* C18 witness: the player died in a frame in which they had fired a shot
\* and an enemy had been spawned (its explosion is at the arena's edge)
C18_Witness ==
    /\ deathState.active
    /\ Seen("gameOver") # << >>
    /\ \E k \in 1..Len(Seen("shootSound")) : Seen("shootSound")[k].weapon = "blaster"
    /\ \E k \in 1..Len(Seen("explosion")) : Seen("explosion")[k].x > 1000
    /\ projectiles = << >> /\ enemies = << >>
    /\ currentSpawnRate = settings.enemySpawnRate

\* C19: the score goes down in no step other than the one from dying to
\* alive (not in the step from alive to dying either), and kills never go
\* down.
C19_ScoreResetOnlyAtRespawn ==
    [][ /\ ~(deathState.active /\ ~deathState'.active) => score' >= score
        /\ kills' >= kills ]_vars

\* C20: a frame reports the stats exactly when more than 100 ms of frame
\* timestamp have passed since the last report, paused or not, and at most
\* once; the last report's timestamp changes only with a report; the health
\* reported is between 0 and the configured max health, and 0 while dying.
C20_StatsThrottle ==
    [][ IF obs'.step = "loop"
        THEN /\ Len(Logged("updateStats")) =
                   (IF timers'.lastTime - timers.lastStatsUpdate > 100 THEN 1 ELSE 0)
             /\ timers'.lastStatsUpdate =
                   (IF Logged("updateStats") # << >> THEN timers'.lastTime
                    ELSE timers.lastStatsUpdate)
             /\ \A k \in 1..Len(Logged("updateStats")) :
                   /\ Logged("updateStats")[k].health >= 0
                   /\ Logged("updateStats")[k].health <= settings.maxHealth
                   /\ deathState'.active => Logged("updateStats")[k].health = 0
        ELSE timers'.lastStatsUpdate = timers.lastStatsUpdate ]_vars

\* C20 witness: a paused frame, the second frame or a later one, has
\* reported the stats
C20_Witness ==
    /\ obs.step = "loop" /\ obs.paused
    /\ Seen("updateStats") # << >>
    /\ frames >= 2
    /\ timers.lastStatsUpdate = timers.lastTime

\* C21: a step in which the player stays alive never raises the current
\* spawn interval; a frame of such a step in which the spawner creates an
\* enemy lowers it by enemySpawnIncreaseRate, not below 50 ms, outside
\* stealth mode and leaves it alone in stealth mode; the interval is never
\* below 50 ms; and the spawner creates an enemy only in a frame whose
\* timestamp is more than the interval (twice the interval under time-slow)
\* after the last spawn.
C21_SpawnInterval ==
    [][ /\ (~deathState.active /\ ~deathState'.active) =>
                /\ currentSpawnRate' <= currentSpawnRate
                /\ Logged("spawn") # << >> =>
                        currentSpawnRate' =
                            IF settings.modeStealth THEN currentSpawnRate
                            ELSE Max(50, currentSpawnRate - settings.enemySpawnIncreaseRate)
        /\ currentSpawnRate' >= 50
        /\ Logged("spawn") # << >> =>
                timers'.lastTime - timers.lastSpawnTime >
                    (IF buffs'.timeSlow THEN 2 * currentSpawnRate ELSE currentSpawnRate)
      ]_vars

\* C21 witness: the second spawn in a row outside stealth mode, with the
\* interval, configured at 60 ms, held at the floor of 50 ms
C21_Witness ==
    /\ frames = 2 /\ obs.step = "loop"
    /\ Len(Seen("spawn")) = 1
    /\ ids.enemy = 5
    /\ ~settings.modeStealth /\ settings.enemySpawnRate = 60
    /\ currentSpawnRate = 50

\* a frame of the running game in which a shot is attempted: the update pass
\* ran while the player was alive and moved lastShotTime
FireAttempt ==
    /\ UpdateTick /\ ~deathState.active
    /\ timers'.lastShotTime # timers.lastShotTime

\* C22: in drain mode a fire attempt that takes the energy to 0 or less
\* triggers death and creates no projectile; any other fire attempt creates
\* a projectile and, if the player survives the frame, leaves the energy 2
\* lower; after every update pass the energy is in 0..100, and it is 100
\* when the mode is off.
C22_DrainBullets ==
    [][ /\ (FireAttempt /\ settings.modeDrainingBullets) =>
                IF player.energy - 2 <= 0
                THEN /\ deathState'.active
                     /\ Logged("gameOver") # << >>
                     /\ Logged("fire") = << >>
                     /\ ids'.projectile = ids.projectile
                     /\ projectiles' = << >>
                ELSE /\ Len(Logged("fire")) = 1
                     /\ ids'.projectile > ids.projectile
                     /\ ~deathState'.active => player'.energy = player.energy - 2
        /\ UpdateTick =>
                /\ player'.energy >= 0 /\ player'.energy <= 100
                /\ ~settings.modeDrainingBullets => player'.energy = 100
      ]_vars

\* C22 witness: the first frame of a drain-mode game fired with the energy at
\* 2: the player is dying and no projectile was made
C22_Witness ==
    /\ frames = 1 /\ obs.step = "loop"
    /\ settings.modeDrainingBullets
    /\ timers.lastShotTime = timers.lastTime
    /\ deathState.active
    /\ Seen("gameOver") # << >> /\ Seen("fire") = << >>
    /\ ids.projectile = 10
    /\ player.energy = 100

\* C23: while the deferred clear of a shell pickup is still pending, that is
\* until perkDuration after the pickup, the shell is active, also when an
\* earlier pickup's clear has run in between.
C23_ShellLasts ==
    shellTimers # << >> => buffs.shell

\* the fire interval of the gun w in the frame just run, as the text gives
\* it: the configured rate, halved under the fire-rate buff, a third of that
\* for the machinegun, three times that for the shotgun, 2000 ms for the gun
\* `loaded`, and at least 400 ms when `floored`
StatedInterval(w, loaded, floored) ==
    LET f0 == settings.projectileFireRate
        f1 == IF buffs'.fireRate THEN f0 \div 2 ELSE f0
        f2 == CASE w = loaded -> 2000
                [] w = "machinegun" -> f1 \div 3
                [] w = "shotgun" -> f1 * 3
                [] OTHER -> f1
    IN  IF floored THEN Max(f2, 400) ELSE f2

\* C24: every shot is fired with the button down and more than the fire
\* interval after the last shot, where the interval is fixed at 2000 ms for
\* the sniper and is at least 400 ms for the explosive gun (explosive ammo
\* active, or the nuke gun chosen in the menu).
C24_FireInterval ==
    [][ \A k \in 1..Len(Logged("fire")) :
            LET shot == Logged("fire")[k]
            IN  /\ shot.down
                /\ timers'.lastTime - timers.lastShotTime >
                       StatedInterval(shot.weapon, "sniper",
                                      buffs'.explosiveAmmo \/ shot.weapon = "nuke")
      ]_vars

\* C24 as stated, the charge weapon being the explosive one (the nuke gun),
\* as in the description of the weapons: every shot is fired with the button
\* down and more than the interval after the last shot, which is fixed at
\* 2000 ms for the charge weapon and at least 400 ms under explosive ammo.
C24_ChargeWeaponInterval ==
    [][ \A k \in 1..Len(Logged("fire")) :
            LET shot == Logged("fire")[k]
            IN  /\ shot.down
                /\ timers'.lastTime - timers.lastShotTime >
                       StatedInterval(shot.weapon, "nuke", buffs'.explosiveAmmo)
      ]_vars

\* C24 witness: a sniper shot, 2100 ms after the one before
C24_Witness ==
    /\ obs.step = "loop"
    /\ Len(Seen("fire")) = 1 /\ Seen("fire")[1].weapon = "sniper"
    /\ timers.lastShotTime = T0 + 500
    /\ frames = 1

\* C25: whatever projectileBounces is configured, a sniper projectile is out
\* of the pool at the end of the frame of its first contact with an enemy.
C25_SniperNoBounce ==
    [][ LiveTick =>
            \A k \in 1..Len(Logged("contact")) :
                Logged("contact")[k].proj.type = "sniper" =>
                    Logged("contact")[k].proj.id \notin IdsOf(projectiles') ]_vars

\* the enemies that chase the player: every kind but the stealth sniper
Chasers(pool) == { i \in 1..Len(pool) : pool[i].type # "stealth_sniper" }

\* the length of the velocity (vx, vy), rounded down
SpeedOf(e) == ISqrt(e.vx * e.vx + e.vy * e.vy)

\* the speed the player moves at on one axis, as the text gives it: the
\* configured speed, times 1.5 under the speed buff, then halved under
\* time-slow
StatedPlayerSpeed ==
    LET v0 == settings.playerSpeed
        v1 == IF buffs'.speed THEN (v0 * 3) \div 2 ELSE v0
    IN  IF buffs'.timeSlow THEN v1 \div 2 ELSE v1

\* C26: in a frame run under time-slow with no death, every chasing enemy
\* that is still in the pool moves at half its normal speed (enemySpeed, or
\* half of enemySpeed for an aggregate), up to the rounding of the two
\* components; the spawner creates an enemy only after twice the current
\* interval; and a player who moved along one axis outside stealth mode
\* moved by the stated speed times the frame's time, unless the arena's edge
\* stopped them.
C26_TimeSlow ==
    [][ (LiveTick /\ buffs'.timeSlow /\ timers'.lastTime > timers.lastTime) =>
            /\ \A i \in Chasers(enemies') :
                    LET normal == IF enemies'[i].type = "aggregate"
                                  THEN settings.enemySpeed \div 2
                                  ELSE settings.enemySpeed
                    IN  (enemies'[i].id \in IdsOf(enemies) /\ ~enemies'[i].nan) =>
                            /\ SpeedOf(enemies'[i]) >= normal \div 2 - 1
                            /\ SpeedOf(enemies'[i]) <= normal \div 2
            /\ Logged("spawn") # << >> =>
                    timers'.lastTime - timers.lastSpawnTime > 2 * currentSpawnRate
            /\ (~settings.modeStealth /\ player'.y = player.y /\ player'.x # player.x
                /\ player'.x < canvas.width - settings.playerRadius
                /\ player'.x > settings.playerRadius) =>
                    Abs(player'.x - player.x) =
                        Step(StatedPlayerSpeed, timers'.lastTime - timers.lastTime)
      ]_vars

\* C27: every enemy the spawner creates is a stealth_sniper in stealth mode
\* and a level1 or level2 enemy outside it, and a level2 enemy is created
\* only in a frame at least 60 s after the difficulty timer was last reset.
C27_SpawnVariant ==
    [][ \A k \in 1..Len(Logged("spawn")) :
            LET e == Logged("spawn")[k].enemy
            IN  IF settings.modeStealth THEN e.type = "stealth_sniper"
                ELSE /\ e.type \in {"level1", "level2"}
                     /\ e.type = "level2" =>
                            timers'.lastTime - timers.startTime >= 60000
      ]_vars

\* C27 witness: two spawns in a row with the level2 roll won, the first
\* 59.96 s after the reset (a level1 enemy), the second 60.46 s after it (a
\* level2 enemy)
C27_Witness ==
    /\ frames = 2 /\ obs.step = "loop"
    /\ timers.lastTime - timers.startTime = 60460
    /\ \E i, j \in 1..Len(enemies) :
            /\ enemies[i].id = 3 /\ enemies[i].type = "level1"
            /\ enemies[j].id = 4 /\ enemies[j].type = "level2"
    /\ Len(Seen("spawn")) = 1 /\ Seen("spawn")[1].enemy.type = "level2"

\* C28: every enemy the spawner creates is placed outside the viewport
\* rectangle, wherever in the viewport the player stands and whatever angle
\* is drawn.
C28_OffScreenEntry ==
    [][ \A k \in 1..Len(Logged("spawn")) :
            LET e == Logged("spawn")[k].enemy
            IN  \/ e.x < 0 \/ e.x > canvas.width
                \/ e.y < 0 \/ e.y > canvas.height
      ]_vars

\* C29: every projectile a shot creates has a finite velocity, also when
\* the pointer is on the player's own position, and after every step no
\* enemy and no projectile of the pools holds a non-finite position or
\* velocity.
C29_FiniteAim ==
    [][ /\ \A k \in 1..Len(Logged("fire")) :
                \A m \in 1..Len(Logged("fire")[k].shots) :
                    ~Logged("fire")[k].shots[m].nan
        /\ \A i \in 1..Len(enemies') : ~enemies'[i].nan
        /\ \A i \in 1..Len(projectiles') : ~projectiles'[i].nan
      ]_vars

\* the gun a weapon perk stands for
GunOf(type) ==
    CASE type = "weapon_shotgun" -> "shotgun"
      [] type = "weapon_machinegun" -> "machinegun"
      [] type = "weapon_blaster" -> "blaster"
      [] type = "weapon_sniper" -> "sniper"

WeaponPerkTypes == {"weapon_shotgun", "weapon_machinegun", "weapon_blaster", "weapon_sniper"}

\* the weapon perks picked up by the step just taken
GunPickups == SelectSeq(Logged("pickup"), LAMBDA e : e.type \in WeaponPerkTypes)

\* C30: a perk that is picked up is removed; a weapon perk sets the local
\* weapon override to its gun, and the override changes in no other way than
\* by a weapon perk or by a change of the menu's gun (which sets it to the
\* menu's gun), so death and respawn leave it alone; outside stealth mode and
\* without explosive ammo every shot is fired with the override; a timed perk
\* starts its buff, and a life perk heals, in the frame that picks it up
C30_WeaponOverride ==
    [][ /\ \A k \in 1..Len(Logged("pickup")) :
              \A i \in 1..Len(perks') : perks'[i].id # Logged("pickup")[k].id
        /\ GunPickups # << >> =>
              localActiveWeapon' = GunOf(GunPickups[Len(GunPickups)].type)
        /\ localActiveWeapon' # localActiveWeapon =>
              \/ GunPickups # << >>
              \/ /\ obs'.step = "setActiveWeapon"
                 /\ settings'.activeWeapon # settings.activeWeapon
                 /\ localActiveWeapon' = settings'.activeWeapon
        /\ obs'.step = "setActiveWeapon" => localActiveWeapon' = settings'.activeWeapon
        /\ \A k \in 1..Len(Logged("fire")) :
              (~settings.modeStealth /\ ~buffs.explosiveAmmo /\ ~buffs'.explosiveAmmo)
                  => Logged("fire")[k].weapon = localActiveWeapon
        /\ \A k \in 1..Len(Logged("pickup")) :
              LET type == Logged("pickup")[k].type
                  due == timers'.lastTime + settings.perkDuration
              IN  /\ type = "time" => buffs'.timeSlowUntil = due
                  /\ type = "fire" => buffs'.fireRateUntil = due
                  /\ type = "speed" => buffs'.speedUntil = due
                  /\ type = "gun_explosive" => buffs'.explosiveAmmoUntil = due
                  /\ type = "shell" => buffs'.shell /\ shellTimers' # << >>
                  /\ (type = "life" /\ Logged("playerHit") = << >> /\ ~deathState'.active)
                        => player'.health = Min(player.health + 5, settings.maxHealth)
      ]_vars

\* the machine gun picked up before the death is fired after the respawn,
\* while the menu's gun is still the blaster
C30_Witness ==
    /\ timers.sessionStart > T0
    /\ Seen("fire") # << >>
    /\ Seen("fire")[1].weapon = "machinegun"
    /\ settings.activeWeapon = "blaster"
    /\ localActiveWeapon = "machinegun"
    /\ ~deathState.active

\* the square of the distance between two points
Apart2(ax, ay, bx, by) == (ax - bx) * (ax - bx) + (ay - by) * (ay - by)

\* the enemies in the pool after the step that no touch of the step was with
Untouched ==
    { j \in 1..Len(enemies') :
        /\ ~enemies'[j].nan
        /\ \A k \in 1..Len(Logged("playerHit")) : Logged("playerHit")[k].enemy # enemies'[j].id }

\* what a frame's touches do: without the shell every enemy that overlaps the
\* player costs 10 health and is pushed 50 px away from the player, and it
\* stays in the pool; with the shell every enemy that overlaps the player is
\* killed with its points and a kill awarded, and the health stays
TouchRule ==
    /\ ~buffs.shell =>
          /\ Logged("shellKill") = << >>
          /\ player'.health = player.health - 10 * Len(Logged("playerHit"))
          /\ \A k \in 1..Len(Logged("playerHit")) :
                LET hit == Logged("playerHit")[k]
                    reach == settings.playerRadius + hit.radius
                IN  /\ Apart2(hit.px, hit.py, hit.x, hit.y) < reach * reach
                    /\ \E j \in 1..Len(enemies') :
                          /\ enemies'[j].id = hit.enemy
                          /\ Apart2(enemies'[j].x, enemies'[j].y, hit.x, hit.y) \in 49 * 49 .. 51 * 51
                          /\ Apart2(enemies'[j].x, enemies'[j].y, hit.px, hit.py)
                                > Apart2(hit.x, hit.y, hit.px, hit.py)
          /\ \A j \in Untouched :
                LET reach == settings.playerRadius + enemies'[j].radius
                IN  Apart2(enemies'[j].x, enemies'[j].y, player'.x, player'.y) >= reach * reach
    /\ buffs.shell =>
          /\ Logged("playerHit") = << >>
          /\ player'.health = player.health
          /\ \A k \in 1..Len(Logged("shellKill")) :
                LET kill == Logged("shellKill")[k]
                IN  /\ kill.enemy.id \notin IdsOf(enemies')
                    /\ kill.killsAfter = kill.killsBefore + 1
                    /\ kill.scoreAfter = kill.scoreBefore + getEnemyKillScore(kill.enemy)
          /\ \A j \in Untouched :
                LET reach == settings.playerRadius + enemies'[j].radius
                IN  Apart2(enemies'[j].x, enemies'[j].y, player'.x, player'.y) >= reach * reach

\* a frame's update pass of a living player outside stealth mode that picks
\* up no perk
TouchTick ==
    /\ obs'.step = "loop" /\ ~obs'.paused
    /\ ~deathState.active
    /\ ~settings.modeStealth
    /\ Logged("pickup") = << >>

\* C31 (as claimed): in every update pass of a living player the touches follow
\* the rule: 10 damage and a knock-back for each overlapping enemy, which stays
\* in the pool, without the shell; a kill with score and kill count awarded
\* and no damage with the shell.
C31_EveryTouch == [][ TouchTick => TouchRule ]_vars

\* C31: the same in every update pass that does not trigger the death of the
\* player.
C31_Touch == [][ (TouchTick /\ LiveTick) => TouchRule ]_vars

\* two enemies touched the player in one frame: 20 health lost, both enemies
\* in the pool
C31_Witness ==
    /\ Len(Seen("playerHit")) = 2
    /\ player.health = 80
    /\ Len(enemies) >= 2
    /\ ~deathState.active

\* C32: while the player is alive, a change of enemySpawnRate does not raise
\* the current spawn interval, and a change of maxHealth leaves a health of
\* at most the new maximum as it is and lowers a greater one to the new
\* maximum.
C32_NoLoosening ==
    [][ ~deathState.active =>
            /\ obs'.step = "setEnemySpawnRate" => currentSpawnRate' <= currentSpawnRate
            /\ obs'.step = "setMaxHealth" =>
                  player'.health = IF player.health > settings'.maxHealth
                                   THEN settings'.maxHealth ELSE player.health
      ]_vars

\* the max health was just lowered to 15 and the health with it, after the
\* spawn rate had been set to 50 ms and back to 1000 ms: the interval is
\* still 50 ms
C32_Witness ==
    /\ obs.step = "setMaxHealth"
    /\ ~deathState.active
    /\ settings.maxHealth = 15 /\ player.health = 15
    /\ settings.enemySpawnRate = 1000 /\ currentSpawnRate = 50

\* C38: whenever the player is alive the current spawn interval is at most
\* the configured enemySpawnRate.
C38_IntervalWithinSetting ==
    ~deathState.active => currentSpawnRate <= settings.enemySpawnRate

\* the death particles in the pool before the step
DeathDust == { i \in 1..Len(particles) : particles[i].type = "death" }

\* the square of the distance of a particle from the respawn point
FromRespawn2(p) == Apart2(p.x, p.y, deathState.respawnX, deathState.respawnY)

\* C33: the gather deadline is set to the timestamp of the death plus 5000 ms
\* and stays while the player is dying; the step from dying to alive is taken
\* by a frame whose timestamp is after the deadline, and every death particle
\* in the pool is then within 10 of the respawn point.
C33_RespawnTiming ==
    [][ /\ (~deathState.active /\ deathState'.active) =>
                deathState'.gatherStartTime = timers'.lastTime + 5000
        /\ (deathState.active /\ deathState'.active) => deathState' = deathState
        /\ (deathState.active /\ ~deathState'.active) =>
                /\ obs'.step = "loop"
                /\ timers'.lastTime > deathState.gatherStartTime
                /\ \A i \in DeathDust : FromRespawn2(particles[i]) <= 10 * 10
      ]_vars

\* the player has just respawned, 600 ms or more after the gather deadline:
\* a frame after the deadline had found the death particles away from the
\* respawn point
C33_Witness ==
    /\ Seen("respawn") # << >>
    /\ ~deathState.active
    /\ timers.lastTime >= deathState.gatherStartTime + 600

\* C34: in every frame of the gather phase that does not end the death
\* state, each death particle farther than 10 from the respawn point ends
\* the frame closer to it than it was, so that after finitely many frames
\* all are within 10 and the player respawns.
C34_GatherProgress ==
    [][ ( /\ obs'.step = "loop" /\ ~obs'.paused
          /\ deathState.active /\ deathState'.active
          /\ timers'.lastTime >= deathState.gatherStartTime ) =>
            \A i \in DeathDust :
                FromRespawn2(particles[i]) > 10 * 10 =>
                    \E j \in 1..Len(particles') :
                        /\ particles'[j].id = particles[i].id
                        /\ FromRespawn2(particles'[j]) < FromRespawn2(particles[i])
      ]_vars

\* the particles in the pool before the step that a forming enemy has claimed
Claimed == { i \in 1..Len(particles) : particles[i].formingTargetId # -1 }

\* the number of the particles among the first k of pool that the forming
\* enemy id has claimed
RECURSIVE ClaimedBy(_, _, _)
ClaimedBy(pool, id, k) ==
    IF k = 0 THEN 0
    ELSE ClaimedBy(pool, id, k - 1) + (IF pool[k].formingTargetId = id THEN pool[k].n ELSE 0)

\* C35: after every update pass each claimed particle refers to a forming
\* enemy in the pool, and each forming enemy in the pool has all the
\* particles it claimed; a claimed particle whose forming enemy is still in
\* the pool after the pass is still in the particle pool; and a claimed
\* particle that is still in the pool is claimed by the same forming enemy
\* as before.
C35_ClaimedParticles ==
    [][ UpdateTick =>
          /\ \A k \in 1..Len(particles') :
                particles'[k].formingTargetId # -1 =>
                    particles'[k].formingTargetId \in IdsOf(formingEnemies')
          /\ \A f \in 1..Len(formingEnemies') :
                ClaimedBy(particles', formingEnemies'[f].id, Len(particles'))
                    = formingEnemies'[f].totalParticles
          /\ \A i \in Claimed :
                particles[i].formingTargetId \in IdsOf(formingEnemies') =>
                    \E k \in 1..Len(particles') : particles'[k].id = particles[i].id
          /\ \A i \in Claimed : \A k \in 1..Len(particles') :
                particles'[k].id = particles[i].id =>
                    particles'[k].formingTargetId = particles[i].formingTargetId
      ]_vars

\* claimed particles have been through an update pass after the one that
\* claimed them, and their forming enemy is still forming
C35_Witness ==
    /\ obs.step = "loop" /\ ~obs.paused
    /\ formingEnemies # << >>
    /\ \E k \in 1..Len(particles) :
            /\ particles[k].formingTargetId = formingEnemies[1].id
            /\ timers.lastTime > formingEnemies[1].startTime

\* C36: a step that begins and ends in the death state ends with the enemy,
\* projectile, perk and letter pools empty and with the player where it was.
C36_SuspendedWhileDying ==
    [][ (deathState.active /\ deathState'.active) =>
            /\ enemies' = << >> /\ projectiles' = << >>
            /\ perks' = << >> /\ letters' = << >>
            /\ player'.x = player.x /\ player'.y = player.y
      ]_vars

\* the number of death particles among the first k of the pool
RECURSIVE DeathDustCount(_)
DeathDustCount(k) ==
    IF k = 0 THEN 0
    ELSE DeathDustCount(k - 1) + (IF particles[k].type = "death" THEN particles[k].n ELSE 0)

\* C37: after every update pass of a living player the particle pool holds
\* no particle of type 'death', and an update pass that begins and ends in
\* the death state keeps every particle of type 'death'.
C37_DeathParticles ==
    [][ UpdateTick =>
          /\ ~deathState'.active =>
                \A k \in 1..Len(particles') : particles'[k].type # "death"
          /\ (deathState.active /\ deathState'.active) =>
                \A i \in DeathDust : \E k \in 1..Len(particles') :
                    /\ particles'[k].id = particles[i].id
                    /\ particles'[k].type = "death"
                    /\ particles'[k].n = particles[i].n
      ]_vars

\* the death state has lasted longer than the 6000 ms of a death particle's
\* life, and the 100 death particles are all in the pool
C37_Witness ==
    /\ deathState.active
    /\ obs.step = "loop" /\ ~obs.paused
    /\ timers.lastTime > deathState.gatherStartTime + 1000
    /\ DeathDustCount(Len(particles)) = 100

\* the player's bounding box intersects the rectangle o
BoxOnObstacle(o) ==
    /\ player.x + settings.playerRadius > o.x
    /\ player.x - settings.playerRadius < o.x + o.width
    /\ player.y + settings.playerRadius > o.y
    /\ player.y - settings.playerRadius < o.y + o.height

\* C39: in stealth mode the player's bounding box intersects no obstacle.
C39_ClearOfObstacles ==
    settings.modeStealth => \A k \in 1..Len(obstacles) : ~BoxOnObstacle(obstacles[k])

----------------------------------------------------------------------------
(* C40 *)

\* the step unpauses the simulation
Unpauses == isPaused /\ ~isPaused'

\* the free sessions of a user who has not unlocked the game are used up
GateClosed == ~app.unlocked /\ app.sessionsPlayed >= MAX_FREE_SESSIONS

\* C40: for a user who has not unlocked the game and has used up the free
\* sessions, no step unpauses the simulation from the game-over screen or
\* from the paywall; and every step that unpauses the simulation from the
\* game-over screen adds one to the session counter.
C40_FreeSessionGate ==
    [][ Unpauses =>
          /\ ~(GateClosed /\ (app.showGameOver \/ app.showPaywall))
          /\ app.showGameOver => app'.sessionsPlayed = app.sessionsPlayed + 1 ]_vars

============================================================================
